---- MODULE Spec2Model ----
(***************************************************************************)
(* Bank Nifty decision support system: the daily risk governor             *)
(* (src/src/risk/governor.py, src/src/models/risk.py) and the trade        *)
(* logging endpoints of the API (src/src/api/routes.py); the market data   *)
(* buffer (src/src/ingestion/data_buffer.py) with the validator and the    *)
(* activities that feed and read it (src/src/api/scheduler.py, routes.py); *)
(* the options engine (src/src/options/engine.py) and the trade builder    *)
(* (src/src/trade/builder.py).                                             *)
(*                                                                         *)
(* Money is in whole rupees; the risk-reward ratio is in tenths (2.0 is    *)
(* 20); max_daily_loss_pct is in tenths of a percent (1.5 % is 15).        *)
(***************************************************************************)
EXTENDS Integers, Sequences, FiniteSets, TLC

VARIABLES
    today,            \* date.today(): the calendar date of the process clock
    risk_state,       \* RiskGovernor._risk_state (None or a DailyRiskState)
    plans_table,      \* database table trade_plans: plan_id -> status
    trades_table,     \* database table executed_trades, in insertion order
    entries_recorded, \* record_trade_entry calls since _risk_state was created
    last_call,        \* the operation that ran last
    call_arg,         \* its argument: the plan, the trade or the amount (else NoArg)
    result,           \* what it returned (else NoResult)
    now,              \* datetime.now(): the process clock, in seconds
    data_buffer,      \* the DataBuffer of market snapshots
    buffer_clears,    \* clear() calls on data_buffer so far
    options_engine,   \* OptionsIntelligenceEngine: _iv_history, _prev_pcr
    time_of_day,      \* datetime.now().time(): minutes since midnight
    regime_engine,    \* MarketRegimeEngine: _opening_range, _or_candles
    or_received,      \* snapshots received in the opening range period so far
    reader            \* a thread reading data_buffer: where it is, what it read

\* the variables of the ingestion and analysis pipeline
\* the variables of the regime engine and of the reading thread
regime_vars == <<time_of_day, regime_engine, or_received, reader>>

pipeline_vars == <<now, data_buffer, buffer_clears, options_engine,
                   time_of_day, regime_engine, or_received, reader>>

vars == <<today, risk_state, plans_table, trades_table, entries_recorded,
          last_call, call_arg, result, pipeline_vars>>

----------------------------------------------------------------------------
(* Program constants (src/src/config.py defaults, as the tests' fixture).   *)

Capital == 500000
MaxTradesPerDay == 2
MaxDailyLossPctTenths == 15
MaxConsecutiveLosses == 2
MinRiskRewardTenths == 20
LotSize == 15

(* Bounds of the model.                                                     *)
MaxLoggedTrades == 2   \* rows of executed_trades modelled
MaxDay == 2            \* calendar dates 1..MaxDay
MaxEntries == 3        \* record_trade_entry calls modelled per day
MaxLossRun == 3        \* longest run of non-winning exits modelled
MaxRealizedSteps == 2  \* |realized_pnl| stays within this many steps of 3750

Dates == 1..MaxDay

max_daily_loss_amount == (Capital * MaxDailyLossPctTenths) \div 1000

Max(a, b) == IF a >= b THEN a ELSE b
Abs(a) == IF a >= 0 THEN a ELSE -a

----------------------------------------------------------------------------
(* Values.                                                                  *)

None == [none |-> TRUE]
NoArg == [no_arg |-> TRUE]
NoResult == [kind |-> "none"]

\* ExecutedTrade as record_trade_exit reads it: pnl_amount and is_winner.
\* is_winner is Optional[bool]: "None" is the unset flag.
TradePnls == {-7500, -3750, 0, 3750}
WinnerFlags == {"True", "False", "None"}
Trades == [pnl_amount : TradePnls, is_winner : WinnerFlags]

\* Python truthiness of ExecutedTrade.is_winner
Truthy(flag) == flag = "True"

UnrealizedAmounts == {-7500, 0, 3750}

\* TradePlan as check_trade_risk reads it.
PlanReasonLists == {<< >>, << <<"Invalid position size">> >>}
\* risk_amount = risk_points * position_size * lot_size, as the builder sets it
\* (one lot at 200 points, three lots at 250 points); a plan's is_valid,
\* rejection_reasons and risk_reward_t2 are independent fields of TradePlan.
Plans == [risk_amount : {3000},
          is_valid : {TRUE},
          rejection_reasons : {<< >>},
          risk_reward_t2 : {18, 25},
          risk_points : {200},
          lot_size : {LotSize}]
         \cup
         [risk_amount : {3000},
          is_valid : {FALSE},
          rejection_reasons : PlanReasonLists,
          risk_reward_t2 : {25},
          risk_points : {200},
          lot_size : {LotSize}]
         \cup
         [risk_amount : {11250},
          is_valid : {TRUE},
          rejection_reasons : {<< >>},
          risk_reward_t2 : {25},
          risk_points : {250},
          lot_size : {LotSize}]
         \cup
         [risk_amount : {4500},
          is_valid : {TRUE},
          rejection_reasons : {<< >>},
          risk_reward_t2 : {25},
          risk_points : {300},
          lot_size : {LotSize}]
         \cup
         [risk_amount : {0},
          is_valid : {FALSE},
          rejection_reasons : {<< >>},
          risk_reward_t2 : {0},
          risk_points : {0},
          lot_size : {LotSize}]

\* Rows of trade_plans that exist in the database, and the plan ids a
\* TradeLogRequest may carry ("p0" names no row).
PlanIds == {"p1", "p2"}
RequestPlanIds == PlanIds \cup {"p0"}
RequestQuantities == {0, LotSize}

----------------------------------------------------------------------------
(* DailyRiskState                                                           *)

update_status(s) ==
    [s EXCEPT !.status =
        IF s.hard_shutdown THEN "shutdown"
        ELSE IF s.max_loss_reached \/ s.max_trades_reached THEN "critical"
        ELSE IF s.consecutive_losses >= 1
                \/ 2 * s.remaining_risk_capacity < s.max_daily_loss_amount
             THEN "warning"
        ELSE IF s.trades_taken >= 1 \/ s.total_pnl < 0 THEN "caution"
        ELSE "normal"]

----------------------------------------------------------------------------
(* RiskGovernor                                                             *)

initialize_day(trading_date) ==
    [date |-> trading_date,
     trades_taken |-> 0,
     max_trades |-> MaxTradesPerDay,
     trades_remaining |-> MaxTradesPerDay,
     total_pnl |-> 0,
     realized_pnl |-> 0,
     unrealized_pnl |-> 0,
     consecutive_losses |-> 0,
     max_consecutive_losses |-> MaxConsecutiveLosses,
     worst_trade_pnl |-> 0,
     best_trade_pnl |-> 0,
     starting_capital |-> Capital,
     current_capital |-> Capital,
     max_daily_loss_amount |-> max_daily_loss_amount,
     remaining_risk_capacity |-> max_daily_loss_amount,
     max_loss_reached |-> FALSE,
     max_trades_reached |-> FALSE,
     hard_shutdown |-> FALSE,
     status |-> "normal",
     shutdown_reason |-> << >>]

\* "if self._risk_state is None: self.initialize_day()"
state_or_init(s, now_date) == IF s = None THEN initialize_day(now_date) ELSE s

\* Variant: the shutdown flag is recomputed from the current figures.
check_limits_recomputed(s) ==
    LET loss == s.total_pnl <= -s.max_daily_loss_amount
        run == s.consecutive_losses >= s.max_consecutive_losses
        a == [s EXCEPT !.max_loss_reached = @ \/ loss,
                       !.hard_shutdown = loss \/ run,
                       !.shutdown_reason =
                           IF run THEN <<s.consecutive_losses, "consecutive losses">>
                           ELSE IF loss THEN <<"Maximum daily loss reached">>
                           ELSE @]
    IN  update_status(a)

\* Variant: the daily-loss check runs after the consecutive-loss check.
check_limits_loss_last(s) ==
    LET a == IF s.consecutive_losses >= s.max_consecutive_losses
             THEN [s EXCEPT !.hard_shutdown = TRUE,
                            !.shutdown_reason =
                                <<s.consecutive_losses, "consecutive losses">>]
             ELSE s
        b == IF a.total_pnl <= -a.max_daily_loss_amount
             THEN [a EXCEPT !.max_loss_reached = TRUE,
                            !.hard_shutdown = TRUE,
                            !.shutdown_reason = <<"Maximum daily loss reached">>]
             ELSE a
    IN  update_status(b)

\* Variant: the daily-loss limit is compared with < instead of <=.
check_limits_strict(s) ==
    LET a == IF s.total_pnl < -s.max_daily_loss_amount
             THEN [s EXCEPT !.max_loss_reached = TRUE,
                            !.hard_shutdown = TRUE,
                            !.shutdown_reason = <<"Maximum daily loss reached">>]
             ELSE s
        b == IF a.consecutive_losses >= a.max_consecutive_losses
             THEN [a EXCEPT !.hard_shutdown = TRUE,
                            !.shutdown_reason =
                                <<a.consecutive_losses, "consecutive losses">>]
             ELSE a
    IN  update_status(b)

check_limits(s) ==
    LET a == IF s.total_pnl <= -s.max_daily_loss_amount
             THEN [s EXCEPT !.max_loss_reached = TRUE,
                            !.hard_shutdown = TRUE,
                            !.shutdown_reason = <<"Maximum daily loss reached">>]
             ELSE s
        b == IF a.consecutive_losses >= a.max_consecutive_losses
             THEN [a EXCEPT !.hard_shutdown = TRUE,
                            !.shutdown_reason =
                                <<a.consecutive_losses, "consecutive losses">>]
             ELSE a
    IN  update_status(b)

\* Variant: trades_remaining is not clamped at zero.
record_trade_entry_unclamped(s0, now_date) ==
    LET s == state_or_init(s0, now_date)
        n == s.trades_taken + 1
        a == [s EXCEPT !.trades_taken = n,
                       !.trades_remaining = s.max_trades - n,
                       !.max_trades_reached =
                           IF n >= s.max_trades THEN TRUE ELSE @]
    IN  update_status(a)

record_trade_entry(s0, now_date) ==
    LET s == state_or_init(s0, now_date)
        n == s.trades_taken + 1
        a == [s EXCEPT !.trades_taken = n,
                       !.trades_remaining = Max(0, s.max_trades - n),
                       !.max_trades_reached =
                           IF n >= s.max_trades THEN TRUE ELSE @]
    IN  update_status(a)

\* Variant: a closed trade gives its slot back.
record_trade_exit_frees_slot(s0, trade, now_date) ==
    LET s == state_or_init(s0, now_date)
        realized == s.realized_pnl + trade.pnl_amount
        total == realized + s.unrealized_pnl
        a == [s EXCEPT
                !.trades_taken = Max(0, @ - 1),
                !.realized_pnl = realized,
                !.total_pnl = total,
                !.current_capital = s.starting_capital + total,
                !.worst_trade_pnl =
                    IF trade.pnl_amount < @ THEN trade.pnl_amount ELSE @,
                !.best_trade_pnl =
                    IF trade.pnl_amount > @ THEN trade.pnl_amount ELSE @,
                !.consecutive_losses =
                    IF Truthy(trade.is_winner) THEN 0 ELSE @ + 1,
                !.remaining_risk_capacity = s.max_daily_loss_amount + total]
    IN  check_limits(a)

\* Variant: the remaining capacity is taken from realized P&L alone.
record_trade_exit_realized_only(s0, trade, now_date) ==
    LET s == state_or_init(s0, now_date)
        realized == s.realized_pnl + trade.pnl_amount
        total == realized + s.unrealized_pnl
        a == [s EXCEPT
                !.realized_pnl = realized,
                !.total_pnl = total,
                !.current_capital = s.starting_capital + total,
                !.worst_trade_pnl =
                    IF trade.pnl_amount < @ THEN trade.pnl_amount ELSE @,
                !.best_trade_pnl =
                    IF trade.pnl_amount > @ THEN trade.pnl_amount ELSE @,
                !.consecutive_losses =
                    IF Truthy(trade.is_winner) THEN 0 ELSE @ + 1,
                !.remaining_risk_capacity = s.max_daily_loss_amount + realized]
    IN  check_limits(a)

\* Variant: only an exit with a negative P&L counts as a loss.
record_trade_exit_negative_only(s0, trade, now_date) ==
    LET s == state_or_init(s0, now_date)
        realized == s.realized_pnl + trade.pnl_amount
        total == realized + s.unrealized_pnl
        a == [s EXCEPT
                !.realized_pnl = realized,
                !.total_pnl = total,
                !.current_capital = s.starting_capital + total,
                !.worst_trade_pnl =
                    IF trade.pnl_amount < @ THEN trade.pnl_amount ELSE @,
                !.best_trade_pnl =
                    IF trade.pnl_amount > @ THEN trade.pnl_amount ELSE @,
                !.consecutive_losses =
                    IF trade.pnl_amount < 0 THEN @ + 1 ELSE 0,
                !.remaining_risk_capacity = s.max_daily_loss_amount + total]
    IN  check_limits(a)

record_trade_exit(s0, trade, now_date) ==
    LET s == state_or_init(s0, now_date)
        realized == s.realized_pnl + trade.pnl_amount
        total == realized + s.unrealized_pnl
        a == [s EXCEPT
                !.realized_pnl = realized,
                !.total_pnl = total,
                !.current_capital = s.starting_capital + total,
                !.worst_trade_pnl =
                    IF trade.pnl_amount < @ THEN trade.pnl_amount ELSE @,
                !.best_trade_pnl =
                    IF trade.pnl_amount > @ THEN trade.pnl_amount ELSE @,
                !.consecutive_losses =
                    IF Truthy(trade.is_winner) THEN 0 ELSE @ + 1,
                !.remaining_risk_capacity = s.max_daily_loss_amount + total]
    IN  check_limits(a)

\* Variant: the limits are re-evaluated after the update.
update_unrealized_pnl_checked(s, unrealized) ==
    IF s = None THEN s
    ELSE check_limits(
             [s EXCEPT !.unrealized_pnl = unrealized,
                       !.total_pnl = s.realized_pnl + unrealized,
                       !.current_capital =
                           s.starting_capital + s.realized_pnl + unrealized])

update_unrealized_pnl(s, unrealized) ==
    IF s = None THEN s
    ELSE [s EXCEPT !.unrealized_pnl = unrealized,
                   !.total_pnl = s.realized_pnl + unrealized,
                   !.current_capital =
                       s.starting_capital + s.realized_pnl + unrealized]

\* The rejection-reason strings, as tuples of their fixed text and the values
\* formatted into them; the "in" tests of _create_result on those strings.
MentionsMaxTrades(r) == r[1] = "Max trades reached"
MentionsDailyLoss(r) ==
    \/ r[1] = "Max daily loss reached"
    \/ /\ r[1] = "Hard shutdown active"
       /\ Len(r[2]) = 1
       /\ r[2][1] = "Maximum daily loss reached"
MentionsConsecutive(r) ==
    /\ r[1] = "Hard shutdown active"
    /\ Len(r[2]) = 2
    /\ r[2][2] = "consecutive losses"
MentionsPositionSize(r) == r[1] = "Invalid position size"
MentionsRR(r) == r[1] = "RR below minimum"

\* Optional[int]: << >> is None, <<n>> is n.
suggest_position_size(s, plan) ==
    IF s = None THEN << >>
    ELSE LET remaining == s.remaining_risk_capacity
             risk_per_lot == plan.risk_points * plan.lot_size
         IN  IF remaining <= 0 THEN << >>
             ELSE IF risk_per_lot <= 0 THEN << >>
             ELSE LET max_lots == remaining \div risk_per_lot
                  IN  IF max_lots > 0 THEN <<Max(1, max_lots)>> ELSE << >>

create_result(s, is_allowed, rejections, warnings, plan) ==
    [kind |-> "risk_check",
     is_allowed |-> is_allowed,
     trade_count_ok |-> ~\E i \in 1..Len(rejections) : MentionsMaxTrades(rejections[i]),
     daily_loss_ok |-> ~\E i \in 1..Len(rejections) : MentionsDailyLoss(rejections[i]),
     consecutive_loss_ok |-> ~\E i \in 1..Len(rejections) : MentionsConsecutive(rejections[i]),
     position_size_ok |-> ~\E i \in 1..Len(rejections) : MentionsPositionSize(rejections[i]),
     risk_reward_ok |-> ~\E i \in 1..Len(rejections) : MentionsRR(rejections[i]),
     rejection_reasons |-> rejections,
     warnings |-> warnings,
     suggested_position_size |->
         IF ~is_allowed THEN suggest_position_size(s, plan) ELSE << >>]

check_warnings(s, plan) ==
    (IF s.consecutive_losses >= 1
     THEN << <<"Caution: consecutive loss(es)", s.consecutive_losses>> >>
     ELSE << >>)
    \o (IF s.trades_taken >= s.max_trades - 1
        THEN << <<"This would be your last trade for the day">> >>
        ELSE << >>)
    \o (IF 2 * plan.risk_amount > s.remaining_risk_capacity
        THEN << <<"Trade uses significant risk capacity">> >>
        ELSE << >>)

\* check_trade_risk on an initialised state s (the caller has run
\* state_or_init): the first failing check returns.
check_trade_risk(s, plan) ==
    IF s.hard_shutdown
    THEN create_result(s, FALSE,
             << <<"Hard shutdown active", s.shutdown_reason>> >>, << >>, plan)
    ELSE IF s.trades_taken >= s.max_trades
    THEN create_result(s, FALSE,
             << <<"Max trades reached", s.trades_taken, s.max_trades>> >>,
             << >>, plan)
    ELSE IF s.total_pnl <= -s.max_daily_loss_amount
    THEN create_result(s, FALSE,
             << <<"Max daily loss reached", Abs(s.total_pnl)>> >>, << >>, plan)
    ELSE IF plan.risk_amount > s.remaining_risk_capacity
    THEN create_result(s, FALSE,
             << <<"Trade risk exceeds remaining capacity", plan.risk_amount,
                  s.remaining_risk_capacity>> >>, << >>, plan)
    ELSE IF ~plan.is_valid
    THEN create_result(s, FALSE, plan.rejection_reasons, << >>, plan)
    ELSE IF plan.risk_reward_t2 < MinRiskRewardTenths
    THEN create_result(s, FALSE,
             << <<"RR below minimum", plan.risk_reward_t2,
                  MinRiskRewardTenths>> >>, << >>, plan)
    ELSE create_result(s, TRUE, << >>, check_warnings(s, plan), plan)

----------------------------------------------------------------------------
(* The market data buffer (src/src/ingestion/data_buffer.py).  Time is in   *)
(* whole seconds; min_fill_pct is a whole percentage.                       *)

data_buffer_size == 100
min_buffer_fill_pct == 80
max_data_staleness_seconds == 5

(* Bounds of the buffer model.                                              *)
MaxTime == 11          \* the clock runs from 0 to MaxTime
MaxAppends == 9        \* appends modelled between two clears
MaxClears == 1         \* clear() calls modelled

\* DataBuffer(max_size, min_fill_pct) as the model constructs it: capacities
\* and fill percentages for which the double product max_size * (pct / 100)
\* truncates to the same integer as the exact product.
BufferConfigs == {<<10, 80>>, <<10, 75>>, <<4, 60>>, <<2, 40>>}

\* the clock advances by one of these steps between two operations
ClockSteps == {10, 11}

\* DataBuffer.__init__; an argument of 0 stands for None (Python's "or"
\* takes the setting for either)
DataBuffer(max_size, min_fill_pct) ==
    LET size_ == IF max_size = 0 THEN data_buffer_size ELSE max_size
        pct_ == IF min_fill_pct = 0 THEN min_buffer_fill_pct ELSE min_fill_pct
    IN  [max_size |-> size_,
         min_fill_pct |-> pct_,
         min_fill_count |-> (size_ * pct_) \div 100,
         buffer |-> << >>,
         update_count |-> 0,
         first_update_time |-> << >>,
         last_update_time |-> << >>]

\* DataBuffer.clear with the deque left as it is
buffer_clear_keeps_items(b) ==
    [b EXCEPT !.update_count = 0,
              !.first_update_time = << >>,
              !.last_update_time = << >>]

\* DataBuffer.clear
buffer_clear(b) ==
    [b EXCEPT !.buffer = << >>,
              !.update_count = 0,
              !.first_update_time = << >>,
              !.last_update_time = << >>]

\* DataBuffer.append at clock time t: a deque(maxlen) drops its oldest item
\* when full
buffer_append(b, item, t) ==
    [b EXCEPT !.buffer = IF Len(b.buffer) >= b.max_size
                         THEN Append(Tail(b.buffer), item)
                         ELSE Append(b.buffer, item),
              !.update_count = b.update_count + 1,
              !.first_update_time = IF b.first_update_time = << >>
                                    THEN <<t>> ELSE b.first_update_time,
              !.last_update_time = <<t>>]

buffer_size(b) == Len(b.buffer)
is_empty(b) == buffer_size(b) = 0
is_ready(b) == buffer_size(b) >= b.min_fill_count

\* DataBuffer.status with every state a warm buffer reports as READY
buffer_status_never_stale(b, t) ==
    IF is_empty(b) THEN "empty"
    ELSE IF ~is_ready(b) THEN "filling"
    ELSE "ready"

\* DataBuffer.status read at clock time t
buffer_status(b, t) ==
    IF is_empty(b) THEN "empty"
    ELSE IF ~is_ready(b) THEN "filling"
    ELSE IF /\ b.last_update_time # << >>
            /\ t - b.last_update_time[1] > max_data_staleness_seconds * 2
         THEN "stale"
         ELSE "ready"

trade_allowed(b, t) == buffer_status(b, t) = "ready"

\* DataBuffer.fill_percentage as "{:.1f}" prints it, in tenths of a percent
fill_percentage_tenths(b) ==
    IF b.max_size > 0
    THEN (buffer_size(b) * 2000 + b.max_size) \div (2 * b.max_size)
    ELSE 0

\* DataBuffer.get_no_trade_reason: the text with the values formatted into
\* it, None when trading is allowed
get_no_trade_reason(b, t) ==
    IF is_empty(b)
    THEN [kind |-> "reason", text |-> "Buffer is empty - waiting for initial data",
          needed |-> 0, fill |-> 0]
    ELSE IF ~is_ready(b)
    THEN [kind |-> "reason", text |-> "Buffer filling - need more data points",
          needed |-> b.min_fill_count - buffer_size(b),
          fill |-> fill_percentage_tenths(b)]
    ELSE IF buffer_status(b, t) = "stale"
    THEN [kind |-> "reason", text |-> "Buffer data is stale - no recent updates",
          needed |-> 0, fill |-> 0]
    ELSE [kind |-> "no_reason", text |-> "", needed |-> 0, fill |-> 0]

\* OptionsIntelligenceEngine.__init__
OptionsIntelligenceEngine == [iv_history |-> << >>, prev_pcr |-> << >>]

\* MarketRegimeEngine(): no opening range, no candles collected
MarketRegimeEngine == [opening_range |-> None, or_candles |-> << >>]

\* nothing received in the opening range period yet
NothingReceived == [count |-> 0, high |-> 0, low |-> 0, later |-> FALSE]

\* the day start job's cron time, 09:10, in minutes since midnight
day_start_time == 550

\* no thread is reading the buffer
ReaderIdle == [pc |-> "idle"]

\* the regime engine as routes.py constructs it, before the clock is read
RegimeConstructed ==
    /\ time_of_day = 0
    /\ regime_engine = MarketRegimeEngine
    /\ or_received = NothingReceived
    /\ reader = ReaderIdle

----------------------------------------------------------------------------
(* The state machine.                                                       *)

Init ==
    /\ today = 1
    /\ risk_state = None
    /\ plans_table = [p \in PlanIds |-> "pending"]
    /\ trades_table = << >>
    /\ entries_recorded = 0
    /\ last_call = "construct"
    /\ call_arg = NoArg
    /\ result = NoResult
    /\ now = 0
    /\ data_buffer = DataBuffer(0, 0)
    /\ buffer_clears = 0
    /\ options_engine = OptionsIntelligenceEngine
    /\ RegimeConstructed

\* risk_governor.initialize_day(), trading_date defaulting to date.today()
InitializeDay ==
    /\ UNCHANGED pipeline_vars
    /\ risk_state' = initialize_day(today)
    /\ entries_recorded' = 0
    /\ last_call' = "initialize_day"
    /\ call_arg' = NoArg
    /\ result' = NoResult
    /\ UNCHANGED <<today, plans_table, trades_table>>

\* create_app: startup_event, run when the API process (re)starts
StartupEvent ==
    /\ UNCHANGED pipeline_vars
    /\ risk_state' = initialize_day(today)
    /\ entries_recorded' = 0
    /\ last_call' = "startup_event"
    /\ call_arg' = NoArg
    /\ result' = NoResult
    /\ UNCHANGED <<today, plans_table, trades_table>>

\* SignalScheduler._day_start: the cron job fires at 09:10 of the next
\* trading date and initialises the governor for that date.
DayStart ==
    /\ UNCHANGED <<now, data_buffer, buffer_clears, options_engine, reader>>
    /\ time_of_day' = day_start_time
    /\ regime_engine' = MarketRegimeEngine
    /\ or_received' = NothingReceived
    /\ today < MaxDay
    /\ today' = today + 1
    /\ risk_state' = initialize_day(today')
    /\ entries_recorded' = 0
    /\ last_call' = "day_start"
    /\ call_arg' = NoArg
    /\ result' = NoResult
    /\ UNCHANGED <<plans_table, trades_table>>

CheckTradeRisk ==
    \E plan \in Plans :
        /\ UNCHANGED pipeline_vars
        /\ risk_state' = state_or_init(risk_state, today)
        /\ result' = check_trade_risk(risk_state', plan)
        /\ call_arg' = plan
        /\ last_call' = "check_trade_risk"
        /\ UNCHANGED <<today, plans_table, trades_table, entries_recorded>>

RecordTradeEntry ==
    /\ UNCHANGED pipeline_vars
    /\ state_or_init(risk_state, today).trades_taken < MaxEntries
    /\ risk_state' = record_trade_entry(risk_state, today)
    /\ entries_recorded' = entries_recorded + 1
    /\ last_call' = "record_trade_entry"
    /\ call_arg' = NoArg
    /\ result' = NoResult
    /\ UNCHANGED <<today, plans_table, trades_table>>

RecordTradeExit ==
    \E trade \in Trades :
        LET next == record_trade_exit(risk_state, trade, today)
        IN  /\ next.consecutive_losses <= MaxLossRun
            /\ Abs(next.realized_pnl) <= MaxRealizedSteps * 3750
            /\ risk_state' = next
            /\ UNCHANGED pipeline_vars
            /\ last_call' = "record_trade_exit"
            /\ call_arg' = trade
            /\ result' = NoResult
            /\ UNCHANGED <<today, plans_table, trades_table, entries_recorded>>

UpdateUnrealizedPnl ==
    \E unrealized \in UnrealizedAmounts :
        /\ UNCHANGED pipeline_vars
        /\ risk_state' = update_unrealized_pnl(risk_state, unrealized)
        /\ last_call' = "update_unrealized_pnl"
        /\ call_arg' = [unrealized |-> unrealized]
        /\ result' = NoResult
        /\ UNCHANGED <<today, plans_table, trades_table, entries_recorded>>

----------------------------------------------------------------------------
(* Persistence and the trade logging endpoints.  A database operation that  *)
(* raises is caught by _safe_execute and yields the default; db_ok says     *)
(* whether the operation went through.  The app serves requests once        *)
(* startup_event has run, which leaves the governor initialised.            *)

\* TradePlansRepository.get_by_id: the row's status, "absent" for None
plans_get_by_id(table, plan_id, db_ok) ==
    IF db_ok /\ plan_id \in DOMAIN table THEN table[plan_id] ELSE "absent"

\* TradePlansRepository.update_status
plans_update_status(table, plan_id, status, db_ok) ==
    IF db_ok /\ plan_id \in DOMAIN table
    THEN [table EXCEPT ![plan_id] = status]
    ELSE table

\* ExecutedTradesRepository.save: the row inserted for a new ExecutedTrade
trades_save(table, plan_id, quantity, db_ok) ==
    IF db_ok
    THEN Append(table, [plan_id |-> plan_id,
                        quantity |-> quantity,
                        pnl_amount |-> 0,
                        is_closed |-> FALSE,
                        is_winner |-> "None"])
    ELSE table

\* ExecutedTradesRepository.update_exit: an UPDATE ... WHERE trade_id = ...
\* (no row need match)
trades_update_exit(table, trade_id, pnl_amount, is_winner, db_ok) ==
    IF db_ok /\ trade_id \in DOMAIN table
    THEN [table EXCEPT ![trade_id].pnl_amount = pnl_amount,
                       ![trade_id].is_closed = TRUE,
                       ![trade_id].is_winner = is_winner]
    ELSE table

HttpResponse(status) == [kind |-> "http", status |-> status]

\* POST /trades/log
LogTradeExecution ==
    \E plan_id \in RequestPlanIds, quantity \in RequestQuantities,
       get_ok \in BOOLEAN, save_ok \in BOOLEAN, upd_ok \in BOOLEAN :
        /\ risk_state # None
        /\ UNCHANGED pipeline_vars
        /\ Len(trades_table) < MaxLoggedTrades
        /\ last_call' = "log_trade_execution"
        /\ call_arg' = NoArg
        /\ UNCHANGED <<today, risk_state, entries_recorded>>
        /\ IF plans_get_by_id(plans_table, plan_id, get_ok) = "absent"
           THEN /\ result' = HttpResponse(404)
                /\ UNCHANGED <<plans_table, trades_table>>
           ELSE IF quantity < 1     \* ExecutedTrade(quantity: ge=1) raises
           THEN /\ result' = HttpResponse(500)
                /\ UNCHANGED <<plans_table, trades_table>>
           ELSE IF ~save_ok
           THEN /\ result' = HttpResponse(500)
                /\ trades_table' =
                       trades_save(trades_table, plan_id, quantity, save_ok)
                /\ UNCHANGED plans_table
           ELSE /\ trades_table' =
                       trades_save(trades_table, plan_id, quantity, save_ok)
                /\ plans_table' =
                       plans_update_status(plans_table, plan_id, "executed",
                                           upd_ok)
                /\ result' = HttpResponse(200)

\* POST /trades/exit
LogTradeExit ==
    \E trade_id \in 1..MaxLoggedTrades, db_ok \in BOOLEAN :
        /\ risk_state # None
        /\ UNCHANGED pipeline_vars
        /\ trades_table' =
               trades_update_exit(trades_table, trade_id, 0, "True", db_ok)
        /\ result' = HttpResponse(IF db_ok THEN 200 ELSE 500)
        /\ last_call' = "log_trade_exit"
        /\ call_arg' = NoArg
        /\ UNCHANGED <<today, risk_state, plans_table, entries_recorded>>

Next ==
    \/ InitializeDay
    \/ StartupEvent
    \/ DayStart
    \/ CheckTradeRisk
    \/ RecordTradeEntry
    \/ RecordTradeExit
    \/ UpdateUnrealizedPnl

Spec == Init /\ [][Next]_vars

\* The API process: its startup hook, the trade logging endpoints and the
\* governor's trade check and entry recording.
NextApi ==
    \/ StartupEvent
    \/ LogTradeExecution
    \/ LogTradeExit
    \/ CheckTradeRisk
    \/ RecordTradeEntry

SpecApi == Init /\ [][NextApi]_vars

----------------------------------------------------------------------------
(* Properties of the risk governor.                                         *)

Initialized == risk_state # None
DayOps == {"record_trade_exit", "record_trade_entry",
           "update_unrealized_pnl", "check_trade_risk"}
InitOps == {"initialize_day", "startup_event", "day_start"}
LossLimitHit == risk_state.total_pnl <= -risk_state.max_daily_loss_amount
LossRunHit ==
    risk_state.consecutive_losses >= risk_state.max_consecutive_losses

\* C1: under record_trade_exit, record_trade_entry, update_unrealized_pnl and
\* check_trade_risk, once hard_shutdown is true it is true in the next state:
\* none of these operations clears it.
C1_ShutdownMonotone ==
    [][(Initialized /\ risk_state.hard_shutdown /\ last_call' \in DayOps)
        => (risk_state' # None /\ risk_state'.hard_shutdown)]_vars

\* A winning exit after the shutdown: neither trigger holds any more, and the
\* flag is still set.
C1_Witness ==
    /\ Initialized
    /\ last_call = "record_trade_exit"
    /\ risk_state.hard_shutdown
    /\ ~LossLimitHit
    /\ ~LossRunHit

\* C2: hard_shutdown is sticky for the trading date: no step that keeps the
\* state's date (initialize_day for the same date included) clears it.
C2_ShutdownStickyForDate ==
    [][(Initialized /\ risk_state.hard_shutdown
        /\ risk_state' # None /\ risk_state'.date = risk_state.date)
        => risk_state'.hard_shutdown]_vars

\* C3: after max_trades record_trade_entry calls on the day's state, every
\* check_trade_risk is rejected, whatever exits and unrealized updates came
\* in between.
C3_DailyCap ==
    (last_call = "check_trade_risk" /\ entries_recorded >= MaxTradesPerDay)
        => ~result.is_allowed

\* The cap alone rejects: a valid plan, no shutdown, a winning exit since.
C3_Witness ==
    /\ last_call = "check_trade_risk"
    /\ entries_recorded >= MaxTradesPerDay
    /\ ~risk_state.hard_shutdown
    /\ risk_state.realized_pnl > 0
    /\ call_arg.is_valid
    /\ call_arg.risk_reward_t2 >= MinRiskRewardTenths
    /\ ~result.is_allowed

C4_AfterExit ==
    (Initialized /\ last_call = "record_trade_exit" /\ LossRunHit)
        => /\ risk_state.hard_shutdown
           /\ risk_state.shutdown_reason =
                  <<risk_state.consecutive_losses, "consecutive losses">>
C4_CheckRejected ==
    (Initialized /\ last_call = "check_trade_risk" /\ LossRunHit)
        => ~result.is_allowed
C4_Counting ==
    last_call' = "record_trade_exit"
        => risk_state'.consecutive_losses =
               IF call_arg'.is_winner = "True" THEN 0
               ELSE state_or_init(risk_state, today).consecutive_losses + 1

\* C4: an exit that brings consecutive_losses to max_consecutive_losses or
\* more leaves hard_shutdown set with reason "<N> consecutive losses"; a
\* check_trade_risk in such a state is rejected; a winning exit resets
\* consecutive_losses to 0 and any other exit adds exactly 1.
C4_ConsecutiveLosses ==
    /\ [](C4_AfterExit /\ C4_CheckRejected)
    /\ [][C4_Counting]_vars

\* The run of losses also crossed the daily loss limit.
C4_Witness ==
    /\ Initialized
    /\ last_call = "record_trade_exit"
    /\ risk_state.consecutive_losses = MaxConsecutiveLosses
    /\ risk_state.max_loss_reached
    /\ risk_state.shutdown_reason = <<MaxConsecutiveLosses, "consecutive losses">>

\* C5 as stated: whenever a record_trade_exit leaves total P&L at or below
\* -max_daily_loss_amount, hard_shutdown and max_loss_reached are set and
\* shutdown_reason is "Maximum daily loss reached".
C5_MaxLossReason ==
    (Initialized /\ last_call = "record_trade_exit" /\ LossLimitHit)
        => /\ risk_state.hard_shutdown
           /\ risk_state.max_loss_reached
           /\ risk_state.shutdown_reason = <<"Maximum daily loss reached">>

\* C5 amended: ... hard_shutdown and max_loss_reached are set; shutdown_reason
\* is "Maximum daily loss reached" unless the exit also left
\* consecutive_losses >= max_consecutive_losses, and then it is
\* "<N> consecutive losses".
C5_MaxLossAmended ==
    (Initialized /\ last_call = "record_trade_exit" /\ LossLimitHit)
        => /\ risk_state.hard_shutdown
           /\ risk_state.max_loss_reached
           /\ risk_state.shutdown_reason =
                  IF LossRunHit
                  THEN <<risk_state.consecutive_losses, "consecutive losses">>
                  ELSE <<"Maximum daily loss reached">>

\* One exit takes total P&L exactly to the limit.
C5_Witness ==
    /\ Initialized
    /\ last_call = "record_trade_exit"
    /\ risk_state.total_pnl = -risk_state.max_daily_loss_amount
    /\ ~LossRunHit
    /\ risk_state.shutdown_reason = <<"Maximum daily loss reached">>

C6_Rejects(s, plan) ==
    \/ s.hard_shutdown
    \/ s.trades_taken >= s.max_trades
    \/ s.total_pnl <= -s.max_daily_loss_amount
    \/ plan.risk_amount > s.remaining_risk_capacity
    \/ ~plan.is_valid
    \/ plan.risk_reward_t2 < MinRiskRewardTenths

\* C6: check_trade_risk allows the plan iff none of the six rejection
\* conditions holds (hard_shutdown; trades_taken >= max_trades; total_pnl <=
\* -max_daily_loss_amount; risk_amount > remaining_risk_capacity; plan not
\* valid; risk_reward_t2 below the minimum), and a rejected result carries at
\* least one rejection reason.
C6_CheckTradeRisk ==
    last_call = "check_trade_risk"
        => /\ result.is_allowed <=> ~C6_Rejects(risk_state, call_arg)
           /\ ~result.is_allowed => Len(result.rejection_reasons) >= 1

\* C7 as stated: in every reachable state remaining_risk_capacity is
\* max_daily_loss_amount + total_pnl.
C7_RemainingCapacity ==
    Initialized
        => risk_state.remaining_risk_capacity =
               risk_state.max_daily_loss_amount + risk_state.total_pnl

C7_AfterWrite ==
    (Initialized /\ last_call \in InitOps \cup {"record_trade_exit"})
        => risk_state.remaining_risk_capacity =
               risk_state.max_daily_loss_amount + risk_state.total_pnl
C7_Kept ==
    (Initialized
     /\ last_call' \in {"record_trade_entry", "update_unrealized_pnl",
                        "check_trade_risk"})
        => risk_state'.remaining_risk_capacity =
               risk_state.remaining_risk_capacity

\* C7 amended: remaining_risk_capacity = max_daily_loss_amount + total_pnl
\* holds right after initialize_day and after every record_trade_exit;
\* record_trade_entry, update_unrealized_pnl and check_trade_risk leave
\* remaining_risk_capacity as it was (update_unrealized_pnl changes total_pnl
\* without refreshing it).
C7_RemainingAmended == []C7_AfterWrite /\ [][C7_Kept]_vars

\* An exit recorded while a position is open at a loss.
C7_Witness ==
    /\ Initialized
    /\ last_call = "record_trade_exit"
    /\ risk_state.unrealized_pnl < 0
    /\ risk_state.realized_pnl > 0
    /\ risk_state.remaining_risk_capacity =
           risk_state.max_daily_loss_amount + risk_state.total_pnl

C8_Frame ==
    last_call' = "update_unrealized_pnl"
        => IF risk_state = None THEN risk_state' = None
           ELSE /\ risk_state' # None
                /\ risk_state'.unrealized_pnl = call_arg'.unrealized
                /\ risk_state'.total_pnl =
                       risk_state.realized_pnl + call_arg'.unrealized
                /\ risk_state'.current_capital =
                       risk_state.starting_capital + risk_state'.total_pnl
                /\ \A f \in DOMAIN risk_state \
                          {"unrealized_pnl", "total_pnl", "current_capital"} :
                       risk_state'[f] = risk_state[f]

\* C8: update_unrealized_pnl(amount) sets unrealized P&L, total P&L
\* (realized + amount) and current capital (starting + total) and changes no
\* other field (hard_shutdown, max_loss_reached, max_trades_reached, status,
\* trades_taken, consecutive_losses, realized P&L, ...), also when the total
\* falls to the daily loss limit.
C8_UpdateUnrealizedFrame == [][C8_Frame]_vars

\* The update took the total to the limit and no shutdown followed.
C8_Witness ==
    /\ Initialized
    /\ last_call = "update_unrealized_pnl"
    /\ LossLimitHit
    /\ ~risk_state.hard_shutdown
    /\ ~risk_state.max_loss_reached
    /\ risk_state.status = "normal"

\* C9 as stated: in every reachable state trades_taken <= max_trades.
C9_TradesCapped ==
    Initialized => risk_state.trades_taken <= risk_state.max_trades

\* C9 amended: record_trade_entry is not guarded, so trades_taken can pass
\* max_trades; then trades_remaining is 0 and max_trades_reached is set.  The
\* cap is enforced by check_trade_risk: a plan is allowed only while
\* trades_taken < max_trades.
C9_CapAtCheck ==
    /\ Initialized
        => /\ risk_state.trades_remaining =
                  Max(0, risk_state.max_trades - risk_state.trades_taken)
           /\ risk_state.trades_taken >= risk_state.max_trades
                  => risk_state.max_trades_reached
    /\ (last_call = "check_trade_risk" /\ result.is_allowed)
        => risk_state.trades_taken < risk_state.max_trades

\* An entry recorded beyond the cap.
C9_Witness ==
    /\ Initialized
    /\ last_call = "record_trade_entry"
    /\ risk_state.trades_taken > risk_state.max_trades
    /\ risk_state.trades_remaining = 0

C10_Accepted == result'.kind = "http" /\ result'.status = 200
C10_Step ==
    /\ (last_call' = "log_trade_execution" /\ C10_Accepted)
        => risk_state' = record_trade_entry(risk_state, today)
    /\ (last_call' = "log_trade_exit" /\ C10_Accepted)
        => risk_state' =
               record_trade_exit(risk_state,
                                 [pnl_amount |-> 0, is_winner |-> "True"],
                                 today)
    /\ (last_call' = "check_trade_risk"
        /\ Len(trades_table') >= MaxTradesPerDay)
        => ~result'.is_allowed

\* C10: every accepted trade-execution log request adds one to the
\* governor's trades_taken (record_trade_entry); every accepted trade-exit
\* log request applies the closed trade's P&L and outcome to the daily risk
\* state (record_trade_exit); so after max_trades logged executions a
\* check_trade_risk is rejected.
C10_LoggedTradesReachGovernor == [][C10_Step]_vars

----------------------------------------------------------------------------
(* The buffer on its own: a DataBuffer of some configuration, a writer that *)
(* appends and clears, readers of its status, and the clock.                *)

CeilDiv(a, b) == (a + b - 1) \div b

\* the governor and the database as the process constructs them
AppConstructed ==
    /\ today = 1
    /\ risk_state = None
    /\ plans_table = [p \in PlanIds |-> "pending"]
    /\ trades_table = << >>
    /\ entries_recorded = 0
    /\ last_call = "construct"
    /\ call_arg = NoArg
    /\ result = NoResult

governor_vars == <<today, risk_state, plans_table, trades_table,
                   entries_recorded>>

InitBuffer ==
    /\ AppConstructed
    /\ now = 0
    /\ data_buffer \in {DataBuffer(c[1], c[2]) : c \in BufferConfigs}
    /\ buffer_clears = 0
    /\ options_engine = OptionsIntelligenceEngine
    /\ RegimeConstructed

\* a MarketSnapshot as the buffer and the validator read it: its timestamp,
\* whether _check_completeness accepts it, and whether validate_snapshot
\* accepts it at the moment it is added
Snapshot(timestamp, complete, valid) ==
    [timestamp |-> timestamp, complete |-> complete, valid |-> valid]

\* DataBuffer.append(item)
BufferAppend ==
    /\ data_buffer.update_count < MaxAppends
    /\ data_buffer' = buffer_append(data_buffer, Snapshot(now, TRUE, TRUE), now)
    /\ last_call' = "append"
    /\ call_arg' = NoArg
    /\ result' = NoResult
    /\ UNCHANGED <<governor_vars, regime_vars, now, buffer_clears, options_engine>>

\* DataBuffer.clear()
BufferClear ==
    /\ buffer_clears < MaxClears
    /\ data_buffer' = buffer_clear(data_buffer)
    /\ buffer_clears' = buffer_clears + 1
    /\ last_call' = "clear"
    /\ call_arg' = NoArg
    /\ result' = NoResult
    /\ UNCHANGED <<governor_vars, regime_vars, now, options_engine>>

\* time passes
Tick ==
    \E d \in ClockSteps :
        /\ now + d <= MaxTime
        /\ now' = now + d
        /\ last_call' = "tick"
        /\ call_arg' = NoArg
        /\ result' = NoResult
        /\ UNCHANGED <<governor_vars, regime_vars, data_buffer, buffer_clears,
                       options_engine>>

\* a reader evaluates DataBuffer.status and DataBuffer.trade_allowed
ReadStatus ==
    /\ result' = [kind |-> "status",
                  status |-> buffer_status(data_buffer, now),
                  trade_allowed |-> trade_allowed(data_buffer, now)]
    /\ last_call' = "status"
    /\ call_arg' = NoArg
    /\ UNCHANGED <<governor_vars, pipeline_vars>>

\* a reader calls DataBuffer.get_no_trade_reason()
GetNoTradeReason ==
    /\ result' = get_no_trade_reason(data_buffer, now)
    /\ last_call' = "get_no_trade_reason"
    /\ call_arg' = NoArg
    /\ UNCHANGED <<governor_vars, pipeline_vars>>

NextBuffer ==
    \/ BufferAppend
    \/ BufferClear
    \/ Tick
    \/ ReadStatus
    \/ GetNoTradeReason

SpecBuffer == InitBuffer /\ [][NextBuffer]_vars

----------------------------------------------------------------------------
(* Properties of the buffer.                                                *)

\* C11: whenever the buffer status is READY, its size is at least
\* ceil(capacity * min-fill-pct / 100).
C11_ReadyMeansCeilFilled ==
    buffer_status(data_buffer, now) = "ready"
        => buffer_size(data_buffer) >=
               CeilDiv(data_buffer.max_size * data_buffer.min_fill_pct, 100)

C12_AfterRestart ==
    (buffer_clears > 0 /\ trade_allowed(data_buffer, now))
        => /\ data_buffer.update_count >= data_buffer.min_fill_count
           /\ data_buffer.update_count >= 1

C12_ClearBlocks ==
    last_call' = "clear" => ~trade_allowed(data_buffer', now')

C12_OnlyAppendOpens ==
    (~trade_allowed(data_buffer, now) /\ trade_allowed(data_buffer', now'))
        => /\ last_call' = "append"
           /\ data_buffer'.update_count >= data_buffer'.min_fill_count
           /\ data_buffer'.last_update_time = <<now'>>

\* C12: after clear() trade_allowed is false until at least min_fill_count
\* (the warm-up threshold) snapshots have been appended since the clear;
\* clear() itself leaves trade_allowed false, and trade_allowed only turns
\* true at an append that reaches the threshold and stamps last-update with
\* the current time.
C12_NoTradeUntilWarm ==
    /\ []C12_AfterRestart
    /\ [][C12_ClearBlocks /\ C12_OnlyAppendOpens]_vars

\* the buffer is trade-ready again after a clear, at the very append that
\* brought it back to the threshold
C12_Witness ==
    /\ buffer_clears > 0
    /\ last_call = "append"
    /\ trade_allowed(data_buffer, now)
    /\ data_buffer.min_fill_count > 1
    /\ data_buffer.update_count = data_buffer.min_fill_count

C13_HasAge == data_buffer.last_update_time # << >>
C13_Age == now - data_buffer.last_update_time[1]

C13_Status ==
    LET s == buffer_status(data_buffer, now)
        size_ == buffer_size(data_buffer)
        threshold == data_buffer.min_fill_count
    IN  /\ trade_allowed(data_buffer, now) <=> s = "ready"
        /\ s \in {"empty", "filling", "stale", "ready"}
        /\ s = "empty" <=> size_ = 0
        /\ s = "filling" <=> (0 < size_ /\ size_ < threshold)
        /\ s = "stale" <=>
               /\ size_ >= threshold
               /\ C13_HasAge
               /\ C13_Age > 2 * max_data_staleness_seconds

C13_Reason ==
    last_call = "get_no_trade_reason"
        => LET s == buffer_status(data_buffer, now)
           IN  /\ result.kind = "no_reason" <=> s = "ready"
               /\ result.kind = "reason" <=> s # "ready"
               /\ result.kind = "reason" => result.text # ""
               /\ s = "filling" =>
                      /\ result.needed =
                             data_buffer.min_fill_count - buffer_size(data_buffer)
                      /\ result.needed >= 1

\* C13: trade_allowed is exactly status = READY; the status is EMPTY iff the
\* buffer holds nothing, FILLING iff 0 < size < min_fill_count, STALE iff
\* size >= min_fill_count and the last update is more than
\* 2 * max_data_staleness_seconds old, READY otherwise; get_no_trade_reason
\* returns a non-empty text in every non-READY state and None only in READY,
\* and while FILLING it reports needed = min_fill_count - size.
C13_StatusAndReason == C13_Status /\ C13_Reason

\* capacity 10 at 80 %, 7 appended: FILLING, one more point needed
C13_Witness ==
    /\ last_call = "get_no_trade_reason"
    /\ data_buffer.max_size = 10
    /\ data_buffer.min_fill_pct = 80
    /\ buffer_size(data_buffer) = 7
    /\ ~trade_allowed(data_buffer, now)
    /\ result.text = "Buffer filling - need more data points"
    /\ result.needed = 1

\* a warm buffer gone stale, and its reason read
C13_WitnessStale ==
    /\ last_call = "get_no_trade_reason"
    /\ buffer_status(data_buffer, now) = "stale"
    /\ result.text = "Buffer data is stale - no recent updates"

----------------------------------------------------------------------------
(* The options engine (src/src/options/engine.py).  An options chain is the *)
(* record of what the engine reads from it: the summed OI changes, the PCR  *)
(* in hundredths, the ATM IV, the spot price and the strikes of the largest *)
(* call and put OI (0 when the chain has none).  Confidence is in           *)
(* hundredths.                                                              *)

iv_lookback == 20
pcr_bullish_threshold == 120
pcr_bearish_threshold == 80

MaxIvSamples == 3      \* analyses modelled per engine
MaxPipelineAdds == 4   \* snapshots the activities add to the buffer

Min(a, b) == IF a <= b THEN a ELSE b

\* the last n items of a sequence
LastN(s, n) == IF Len(s) <= n THEN s ELSE SubSeq(s, Len(s) - n + 1, Len(s))

\* set(sequence)
Range(s) == {s[i] : i \in 1..Len(s)}

RECURSIVE CountOf(_, _)
CountOf(s, x) ==
    IF s = << >> THEN 0
    ELSE (IF Head(s) = x THEN 1 ELSE 0) + CountOf(Tail(s), x)

analyze_oi_changes(chain) ==
    LET c == chain.call_oi_change
        q == chain.put_oi_change
    IN  IF c > 0 /\ q > 0
        THEN (IF q > c THEN "long_buildup" ELSE "short_buildup")
        ELSE IF c < 0 /\ q < 0
        THEN (IF Abs(c) > Abs(q) THEN "short_covering" ELSE "long_unwinding")
        ELSE IF q > 0 /\ c <= 0 THEN "long_buildup"
        ELSE IF c > 0 /\ q <= 0 THEN "short_buildup"
        ELSE "neutral"

interpret_pcr(pcr) ==
    IF pcr > pcr_bullish_threshold THEN "bullish"
    ELSE IF pcr < pcr_bearish_threshold THEN "bearish"
    ELSE "neutral"

\* _analyze_oi_walls: << >> is None
analyze_oi_walls(spot, call_wall, put_wall) ==
    IF call_wall = 0 \/ put_wall = 0 THEN << >>
    ELSE IF call_wall - spot > 0 /\ spot - put_wall > 0
    THEN (IF call_wall - spot < spot - put_wall THEN <<"SHORT">> ELSE <<"LONG">>)
    ELSE << >>

\* _calculate_iv_percentile and _get_iv_status over the history that already
\* holds current_iv: rank / len * 100 against 20, 50 and 80
get_iv_status(iv_history, current_iv) ==
    LET n == Len(iv_history)
        rank == Cardinality({i \in 1..n : iv_history[i] < current_iv})
        below(p) == IF n < 5 THEN 50 < p ELSE rank * 100 < p * n
    IN  IF below(20) THEN "low"
        ELSE IF below(50) THEN "normal"
        ELSE IF below(80) THEN "elevated"
        ELSE "extreme"

get_iv_trend(iv_history) ==
    IF Len(iv_history) < 3 THEN "stable"
    ELSE LET r == LastN(iv_history, 3)
         IN  IF r[1] < r[2] /\ r[2] < r[3] THEN "expanding"
             ELSE IF r[1] > r[2] /\ r[2] > r[3] THEN "contracting"
             ELSE "stable"

\* the direction votes: OI buildup, PCR, OI walls, in that order
direction_signals(oi_buildup, pcr_interpretation, wall_direction) ==
    (IF oi_buildup \in {"long_buildup", "short_covering"} THEN <<"LONG">>
     ELSE IF oi_buildup \in {"short_buildup", "long_unwinding"} THEN <<"SHORT">>
     ELSE << >>)
    \o (IF pcr_interpretation = "bullish" THEN <<"LONG">>
        ELSE IF pcr_interpretation = "bearish" THEN <<"SHORT">>
        ELSE << >>)
    \o wall_direction

\* _detect_conflicts: the reasons it appends, in order (has_conflict is set
\* by exactly the branches that append one); a reason is its fixed text
\* followed by the values formatted into it
detect_conflicts(signals, oi_buildup, pcr_interpretation, iv_trend) ==
    LET longs == CountOf(signals, "LONG")
        shorts == CountOf(signals, "SHORT")
    IN  (IF longs > 0 /\ shorts > 0
         THEN << <<"Mixed direction signals", longs, shorts>> >>
         ELSE << >>)
        \o (IF \/ /\ oi_buildup \in {"long_buildup", "short_covering"}
                  /\ pcr_interpretation = "bearish"
               \/ /\ oi_buildup \in {"short_buildup", "long_unwinding"}
                  /\ pcr_interpretation = "bullish"
            THEN << <<"OI against PCR", oi_buildup, pcr_interpretation>> >>
            ELSE << >>)
        \o (IF iv_trend = "expanding" /\ Cardinality(Range(signals)) > 1
            THEN << <<"IV expanding with unclear direction - market uncertainty">> >>
            ELSE << >>)

\* Variant: an expanding IV alone counts as a conflict.
has_conflict_of_iv_alone(signals, oi_buildup, pcr_interpretation, iv_trend) ==
    LET longs == CountOf(signals, "LONG")
        shorts == CountOf(signals, "SHORT")
    IN  \/ longs > 0 /\ shorts > 0
        \/ /\ oi_buildup \in {"long_buildup", "short_covering"}
           /\ pcr_interpretation = "bearish"
        \/ /\ oi_buildup \in {"short_buildup", "long_unwinding"}
           /\ pcr_interpretation = "bullish"
        \/ iv_trend = "expanding"

\* has_conflict as _detect_conflicts returns it: the branches that set it
has_conflict_of(signals, oi_buildup, pcr_interpretation, iv_trend) ==
    LET longs == CountOf(signals, "LONG")
        shorts == CountOf(signals, "SHORT")
    IN  \/ longs > 0 /\ shorts > 0
        \/ /\ oi_buildup \in {"long_buildup", "short_covering"}
           /\ pcr_interpretation = "bearish"
        \/ /\ oi_buildup \in {"short_buildup", "long_unwinding"}
           /\ pcr_interpretation = "bullish"
        \/ iv_trend = "expanding" /\ Cardinality(Range(signals)) > 1

aggregate_direction(signals) ==
    LET longs == CountOf(signals, "LONG")
        shorts == CountOf(signals, "SHORT")
    IN  IF signals = << >> THEN "NEUTRAL"
        ELSE IF longs > shorts THEN "LONG"
        ELSE IF shorts > longs THEN "SHORT"
        ELSE "NEUTRAL"

iv_multiplier(iv_status) ==
    CASE iv_status = "low" -> 80
      [] iv_status = "normal" -> 100
      [] iv_status = "elevated" -> 90
      [] iv_status = "extreme" -> 70
      [] OTHER -> 100

\* _calculate_confidence: round(min(dominant / total * multiplier, 1.0), 2)
calculate_confidence(signals, conflicts, iv_status) ==
    IF conflicts # << >> THEN 0
    ELSE IF signals = << >> THEN 0
    ELSE LET total == Len(signals)
             dominant == Max(CountOf(signals, "LONG"), CountOf(signals, "SHORT"))
             exact2 == 2 * dominant * iv_multiplier(iv_status)
         IN  Min((exact2 + total) \div (2 * total), 100)

\* OptionsIntelligenceEngine.analyze with the direction of the votes kept
\* when they conflict
analyze_keeps_direction(engine, chain) ==
    LET history == LastN(Append(engine.iv_history, chain.atm_iv), iv_lookback)
        oi_buildup == analyze_oi_changes(chain)
        pcr_interpretation == interpret_pcr(chain.pcr)
        iv_status == get_iv_status(history, chain.atm_iv)
        iv_trend == get_iv_trend(history)
        signals == direction_signals(oi_buildup, pcr_interpretation,
                       analyze_oi_walls(chain.spot_price, chain.call_wall,
                                        chain.put_wall))
        conflicts == detect_conflicts(signals, oi_buildup, pcr_interpretation,
                                      iv_trend)
        has_conflict == has_conflict_of(signals, oi_buildup,
                                        pcr_interpretation, iv_trend)
    IN  [intel |-> [direction |-> aggregate_direction(signals),
                    confidence |->
                        calculate_confidence(signals, conflicts, iv_status),
                    oi_buildup_type |-> oi_buildup,
                    pcr_interpretation |-> pcr_interpretation,
                    iv_status |-> iv_status,
                    iv_trend |-> iv_trend,
                    has_conflict |-> has_conflict,
                    conflict_reasons |-> conflicts],
         engine |-> [iv_history |-> history, prev_pcr |-> <<chain.pcr>>]]

\* OptionsIntelligenceEngine.analyze: the OptionsIntelligence it returns and
\* the engine state it leaves
analyze(engine, chain) ==
    LET history == LastN(Append(engine.iv_history, chain.atm_iv), iv_lookback)
        oi_buildup == analyze_oi_changes(chain)
        pcr_interpretation == interpret_pcr(chain.pcr)
        iv_status == get_iv_status(history, chain.atm_iv)
        iv_trend == get_iv_trend(history)
        signals == direction_signals(oi_buildup, pcr_interpretation,
                       analyze_oi_walls(chain.spot_price, chain.call_wall,
                                        chain.put_wall))
        conflicts == detect_conflicts(signals, oi_buildup, pcr_interpretation,
                                      iv_trend)
        has_conflict == has_conflict_of(signals, oi_buildup,
                                        pcr_interpretation, iv_trend)
    IN  [intel |-> [direction |-> IF has_conflict THEN "NEUTRAL"
                                  ELSE aggregate_direction(signals),
                    confidence |->
                        calculate_confidence(signals, conflicts, iv_status),
                    oi_buildup_type |-> oi_buildup,
                    pcr_interpretation |-> pcr_interpretation,
                    iv_status |-> iv_status,
                    iv_trend |-> iv_trend,
                    has_conflict |-> has_conflict,
                    conflict_reasons |-> conflicts],
         engine |-> [iv_history |-> history, prev_pcr |-> <<chain.pcr>>]]

----------------------------------------------------------------------------
(* The validator and the activities around the buffer: the scheduler's      *)
(* fetch and signal jobs (src/src/api/scheduler.py) and the current-signal  *)
(* endpoint (src/src/api/routes.py).  The regime and the confluence score   *)
(* an activity computes from the buffered prices are inputs here.  Of the   *)
(* two DataBuffers of a MarketDataBuffer, filled in lockstep, the snapshot  *)
(* buffer is the one modelled.  Prices are in units of 0.0001 rupee.        *)

Rupee == 10000

\* how old a snapshot's timestamp is when the broker hands it over
SnapshotAges == {0, 6}

\* options chains the broker hands over
SignalOiChanges == {<<1, 2>>, <<2, 1>>, <<0, 0>>}
SignalPcrs == {70, 100, 130}
SignalWalls == {<<0, 0>>, <<4810, 4785>>}
SignalIvs == {10, 20, 30}

OptionsChain(oi, pcr, walls, iv) ==
    [call_oi_change |-> oi[1], put_oi_change |-> oi[2], pcr |-> pcr,
     atm_iv |-> iv, spot_price |-> 4800, call_wall |-> walls[1],
     put_wall |-> walls[2],
     atm_call_ltp |-> <<30 * Rupee>>, atm_put_ltp |-> <<30 * Rupee>>]

SignalChains ==
    {OptionsChain(oi, pcr, walls, iv) :
        oi \in SignalOiChanges, pcr \in SignalPcrs, walls \in SignalWalls,
        iv \in SignalIvs}

PipelineChains == {OptionsChain(<<1, 2>>, 130, <<0, 0>>, 20)}

\* a MarketSnapshot as the broker returns it
BrokerSnapshot(age, complete, chain) ==
    [age |-> age, complete |-> complete, options_chain |-> chain,
     futures_ltp |-> 4800 * Rupee, spot_range |-> 10 * Rupee]

PipelineSnapshots ==
    {BrokerSnapshot(age, complete, chain) :
        age \in SnapshotAges, complete \in BOOLEAN, chain \in PipelineChains}

\* what BrokerStub returns: fresh and complete
SignalSnapshots == {BrokerSnapshot(0, TRUE, chain) : chain \in SignalChains}

\* MarketRegime as the fusing code and the builder read it; levels of the
\* opening range in units of 0.0001 rupee
OpeningRange(captured, high, low) ==
    [captured |-> captured, high |-> high, low |-> low]

RegimeResults ==
    {[trade_allowed |-> TRUE, trade_rejection_reasons |-> << >>,
      opening_range |-> OpeningRange(TRUE, 4810 * Rupee, 4790 * Rupee)],
     [trade_allowed |-> FALSE,
      trade_rejection_reasons |-> << <<"Extreme volatility - high risk">> >>,
      opening_range |-> OpeningRange(FALSE, 0, 0)]}

\* ConfluenceScore as the fusing code reads it
ConfluenceResults ==
    {[is_eligible |-> TRUE, direction |-> "LONG"],
     [is_eligible |-> TRUE, direction |-> "SHORT"],
     [is_eligible |-> FALSE, direction |-> "NEUTRAL"]}

\* DataValidator.validate_snapshot at a moment when the snapshot is
\* staleness seconds old
validate_snapshot(snapshot, check_trading_hours, within_hours) ==
    LET timestamp_valid == snapshot.age <= max_data_staleness_seconds
        hours_ok == within_hours \/ ~check_trading_hours
        is_valid == timestamp_valid /\ snapshot.complete /\ hours_ok
    IN  [is_valid |-> is_valid,
         status |-> IF is_valid THEN "valid"
                    ELSE IF ~hours_ok THEN "outside_hours"
                    ELSE IF ~timestamp_valid THEN "stale"
                    ELSE "incomplete"]

\* the item MarketDataBuffer.add_snapshot stores at clock time t
buffered(snapshot, t, within_hours) ==
    Snapshot(t - snapshot.age, snapshot.complete,
             validate_snapshot(snapshot, TRUE, within_hours).is_valid)

\* get_current_signal with the signal declared invalid only when the regime
\* or the confluence says so, and the direction taken from the confluence
fuse_signal_ignores_options(regime, confluence, intel) ==
    LET agreed == /\ regime.trade_allowed
                  /\ confluence.is_eligible
        direction == IF agreed /\ confluence.direction = "LONG" THEN "LONG"
                     ELSE IF agreed /\ confluence.direction = "SHORT"
                     THEN "SHORT"
                     ELSE "NEUTRAL"
    IN  [is_valid |-> agreed /\ direction # "NEUTRAL",
         direction |-> direction,
         validity_reasons |->
             regime.trade_rejection_reasons \o intel.conflict_reasons]

\* get_current_signal, "Generate signal" and "Determine direction": the
\* TradeSignal built from the three analyses
fuse_signal(regime, confluence, intel) ==
    LET agreed == /\ regime.trade_allowed
                  /\ confluence.is_eligible
                  /\ ~intel.has_conflict
        direction == IF /\ agreed
                        /\ confluence.direction = "LONG"
                        /\ intel.direction = "LONG"
                     THEN "LONG"
                     ELSE IF /\ agreed
                             /\ confluence.direction = "SHORT"
                             /\ intel.direction = "SHORT"
                     THEN "SHORT"
                     ELSE "NEUTRAL"
    IN  [is_valid |-> agreed /\ direction # "NEUTRAL",
         direction |-> direction,
         validity_reasons |->
             regime.trade_rejection_reasons \o intel.conflict_reasons]

\* SignalScheduler._fetch_market_data: validate, then add
FetchMarketData ==
    \E market_open \in BOOLEAN, broker_up \in BOOLEAN,
       snapshot \in PipelineSnapshots :
        /\ data_buffer.update_count < MaxPipelineAdds
        /\ last_call' = "fetch_market_data"
        /\ call_arg' = NoArg
        /\ UNCHANGED <<governor_vars, regime_vars, now, buffer_clears, options_engine>>
        /\ IF ~market_open
           THEN /\ result' = [kind |-> "fetch", outcome |-> "market_closed"]
                /\ UNCHANGED data_buffer
           ELSE IF ~broker_up
           THEN /\ result' = [kind |-> "fetch", outcome |-> "no_snapshot"]
                /\ UNCHANGED data_buffer
           ELSE IF validate_snapshot(snapshot, TRUE, market_open).is_valid
           THEN /\ result' = [kind |-> "fetch", outcome |-> "added"]
                /\ data_buffer' =
                       buffer_append(data_buffer,
                                     buffered(snapshot, now, market_open), now)
           ELSE /\ result' = [kind |-> "fetch", outcome |-> "discarded"]
                /\ UNCHANGED data_buffer

\* GET /signals/current with the broker's snapshot, whether the call falls
\* in trading hours, the regime and the confluence score drawn from the
\* given sets
GetCurrentSignalFrom(snapshots, hours, regimes, confluences) ==
    \E broker_up \in BOOLEAN, snapshot \in snapshots,
       within_hours \in hours, regime \in regimes,
       confluence \in confluences :
        /\ Len(options_engine.iv_history) < MaxIvSamples
        /\ last_call' = "get_current_signal"
        /\ call_arg' = NoArg
        /\ UNCHANGED <<governor_vars, regime_vars, now, buffer_clears>>
        /\ IF ~broker_up
           THEN /\ result' = HttpResponse(503)
                /\ UNCHANGED <<data_buffer, options_engine>>
           ELSE LET filled == buffer_append(data_buffer,
                                  buffered(snapshot, now, within_hours), now)
                    analysed == analyze(options_engine, snapshot.options_chain)
                IN  /\ data_buffer' = filled
                    /\ IF ~is_ready(filled)
                       THEN /\ result' =
                                   [kind |-> "buffer_filling",
                                    message |-> get_no_trade_reason(filled, now)]
                            /\ UNCHANGED options_engine
                       ELSE /\ options_engine' = analysed.engine
                            /\ result' =
                                   [kind |-> "signal",
                                    signal |-> fuse_signal(regime, confluence,
                                                           analysed.intel),
                                    options_intel |-> analysed.intel,
                                    regime |-> regime,
                                    confluence |-> confluence,
                                    snapshot |-> snapshot]

PipelineRegimes == {r \in RegimeResults : r.trade_allowed}
PipelineConfluences == {c \in ConfluenceResults : c.direction = "LONG"}

GetCurrentSignal ==
    /\ data_buffer.update_count < MaxPipelineAdds
    /\ GetCurrentSignalFrom(PipelineSnapshots, BOOLEAN, PipelineRegimes,
                            PipelineConfluences)

\* SignalScheduler._generate_signal: gated on is_ready, then the regime is
\* classified on the latest snapshot
GenerateSignal ==
    \E market_open \in BOOLEAN, opening_range_period \in BOOLEAN :
        /\ last_call' = "generate_signal"
        /\ call_arg' = NoArg
        /\ result' =
               [kind |-> "signal_job",
                outcome |->
                    IF ~market_open THEN "market_closed"
                    ELSE IF ~is_ready(data_buffer) THEN "buffer_not_ready"
                    ELSE IF opening_range_period THEN "opening_range"
                    ELSE IF is_empty(data_buffer) THEN "no_snapshot"
                    ELSE "regime_classified"]
        /\ UNCHANGED <<governor_vars, pipeline_vars>>

PipelineBufferConfigs == {<<4, 75>>}

InitPipeline ==
    /\ AppConstructed
    /\ now = 0
    /\ data_buffer \in {DataBuffer(c[1], c[2]) : c \in PipelineBufferConfigs}
    /\ buffer_clears = 0
    /\ options_engine = OptionsIntelligenceEngine
    /\ RegimeConstructed

NextPipeline ==
    \/ FetchMarketData
    \/ GetCurrentSignal
    \/ GenerateSignal
    \/ Tick

SpecPipeline == InitPipeline /\ [][NextPipeline]_vars

----------------------------------------------------------------------------
(* Properties of the pipeline around the buffer.                            *)

\* C14: every snapshot in the market data buffer passes validate_snapshot at
\* the moment it is added, whichever activity adds it; a snapshot that fails
\* validation does not change the buffer.
C14_OnlyValidatedEnter ==
    \A i \in 1..Len(data_buffer.buffer) : data_buffer.buffer[i].valid

C15_Analysed ==
    \/ last_call = "generate_signal" /\ result.outcome = "regime_classified"
    \/ last_call = "get_current_signal" /\ result.kind = "signal"

\* C15: the scheduled signal job and the current-signal endpoint run their
\* analysis only while the buffer's trade_allowed is true; in EMPTY, FILLING
\* and STALE nothing is analysed.
C15_AnalysisOnlyWhenReady ==
    C15_Analysed => trade_allowed(data_buffer, now)

----------------------------------------------------------------------------
(* The trade builder (src/src/trade/builder.py).  Prices, points and        *)
(* amounts are in units of 0.0001 rupee, so that the products with 0.3,     *)
(* 0.5, 1.5 and 2.5 of the inputs used here are whole; round(x, 2) rounds   *)
(* to a multiple of 100 units.  Risk-reward ratios are in tenths.           *)

MaxRiskPerTradePctTenths == 10
or_stop_buffer == 10 * Rupee
min_lots == 1
max_lots == 5

\* round(x, 2): to the nearest 0.01, a tie to the even neighbour
Round2(x) ==
    LET q == x \div 100
        r == x % 100
    IN  IF r < 50 THEN q * 100
        ELSE IF r > 50 THEN (q + 1) * 100
        ELSE IF q % 2 = 0 THEN q * 100
        ELSE (q + 1) * 100

\* TradeBuilder.__init__; min_risk_reward 0 stands for None
TradeBuilder(min_risk_reward) ==
    [capital |-> Capital,
     min_risk_reward |-> IF min_risk_reward = 0 THEN MinRiskRewardTenths
                         ELSE min_risk_reward,
     lot_size |-> LotSize,
     max_risk_amount |->
         ((Capital * MaxRiskPerTradePctTenths) \div 1000) * Rupee]

to_trade_direction(signal_dir) ==
    IF signal_dir = "LONG" THEN "LONG" ELSE "SHORT"

\* _select_instrument: the instrument type (the symbol goes with it)
select_instrument(direction, snapshot, options_intel) ==
    IF options_intel.iv_status = "extreme" \/ options_intel.has_conflict
    THEN IF direction = "LONG"
         THEN (IF snapshot.options_chain.atm_call_ltp # << >>
               THEN "CE" ELSE "FUT")
         ELSE (IF snapshot.options_chain.atm_put_ltp # << >>
               THEN "PE" ELSE "FUT")
    ELSE "FUT"

get_instrument_price(instrument_type, snapshot) ==
    IF instrument_type = "FUT" THEN snapshot.futures_ltp
    ELSE IF instrument_type = "CE"
    THEN (IF snapshot.options_chain.atm_call_ltp # << >>
          THEN snapshot.options_chain.atm_call_ltp[1] ELSE 0)
    ELSE IF instrument_type = "PE"
    THEN (IF snapshot.options_chain.atm_put_ltp # << >>
          THEN snapshot.options_chain.atm_put_ltp[1] ELSE 0)
    ELSE 0

\* _calculate_entry_zone: the EntryZone it constructs; constructed says
\* whether the fields pass EntryZone's constraints (each gt 0, upper >= lower)
calculate_entry_zone(current_price, direction, snapshot) ==
    LET atr_estimate == IF snapshot.spot_range > 0
                        THEN snapshot.spot_range \div 2
                        ELSE (current_price * 2) \div 1000
        zone_width == (atr_estimate * 3) \div 10
        pullback == (zone_width * 3) \div 10
        lower == Round2(IF direction = "LONG"
                        THEN current_price - zone_width ELSE current_price)
        upper == Round2(IF direction = "LONG"
                        THEN current_price ELSE current_price + zone_width)
        optimal == Round2(IF direction = "LONG"
                          THEN current_price - pullback
                          ELSE current_price + pullback)
    IN  [lower |-> lower, upper |-> upper, optimal |-> optimal,
         constructed |-> lower > 0 /\ upper > 0 /\ optimal > 0
                         /\ upper >= lower]

\* _calculate_stop_loss with the stop on the far side of the entry
calculate_stop_loss_wrong_side(entry_price, direction, regime, snapshot) ==
    LET atr_estimate == snapshot.spot_range \div 2
    IN  IF direction = "LONG"
        THEN entry_price + (atr_estimate * 3) \div 2
        ELSE entry_price - (atr_estimate * 3) \div 2

calculate_stop_loss(entry_price, direction, regime, snapshot) ==
    LET atr_estimate == snapshot.spot_range \div 2
        atr_buffer == (atr_estimate * 3) \div 2
        captured == regime.opening_range.captured
        or_range == regime.opening_range.high - regime.opening_range.low
        sl_buffer == IF captured THEN Max(atr_buffer, or_range \div 2)
                     ELSE atr_buffer
    IN  IF direction = "LONG"
        THEN IF captured /\ regime.opening_range.low < entry_price
             THEN Min(entry_price - sl_buffer,
                      regime.opening_range.low - or_stop_buffer)
             ELSE entry_price - sl_buffer
        ELSE IF captured /\ regime.opening_range.high > entry_price
             THEN Max(entry_price + sl_buffer,
                      regime.opening_range.high + or_stop_buffer)
             ELSE entry_price + sl_buffer

\* half of an integer on the grid of representable prices: a float sum
\* that falls midway between two representable values goes to the even one
HalfToEven(twice) ==
    LET q == twice \div 2
    IN  IF twice % 2 = 0 \/ q % 2 = 0 THEN q ELSE q + 1

\* _calculate_targets: <<target_1, target_2>>.  risk * 1.5 and risk * 2.5
\* are exact products; the sum with the entry price is rounded to a
\* representable price.
calculate_targets(entry_price, stop_loss, direction) ==
    LET risk == Abs(entry_price - stop_loss)
    IN  IF direction = "LONG"
        THEN <<HalfToEven(2 * entry_price + 3 * risk),
               HalfToEven(2 * entry_price + 5 * risk)>>
        ELSE <<HalfToEven(2 * entry_price - 3 * risk),
               HalfToEven(2 * entry_price - 5 * risk)>>

\* _calculate_position_size with no upper limit on the lots
calculate_position_size_uncapped(builder, risk_points) ==
    IF risk_points <= 0 THEN 1
    ELSE Max(min_lots,
             builder.max_risk_amount \div (risk_points * builder.lot_size))

calculate_position_size(builder, risk_points) ==
    IF risk_points <= 0 THEN 1
    ELSE Max(min_lots,
             Min(builder.max_risk_amount \div (risk_points * builder.lot_size),
                 max_lots))

\* _validate_trade with the regime not consulted
validate_trade_ignores_regime(builder, risk_reward_t2, risk_amount, position_size, regime) ==
    (IF risk_reward_t2 < builder.min_risk_reward
     THEN << <<"Risk-Reward below minimum", risk_reward_t2,
               builder.min_risk_reward>> >>
     ELSE << >>)
    \o (IF risk_amount > builder.max_risk_amount
        THEN << <<"Risk amount exceeds max", risk_amount,
                  builder.max_risk_amount>> >>
        ELSE << >>)
    \o (IF position_size < 1 THEN << <<"Invalid position size">> >> ELSE << >>)

\* _validate_trade: the rejection reasons (the plan is valid when there is
\* none); a reason is its fixed text followed by the values formatted into it
validate_trade(builder, risk_reward_t2, risk_amount, position_size, regime) ==
    (IF risk_reward_t2 < builder.min_risk_reward
     THEN << <<"Risk-Reward below minimum", risk_reward_t2,
               builder.min_risk_reward>> >>
     ELSE << >>)
    \o (IF risk_amount > builder.max_risk_amount
        THEN << <<"Risk amount exceeds max", risk_amount,
                  builder.max_risk_amount>> >>
        ELSE << >>)
    \o (IF ~regime.trade_allowed
        THEN << <<"Trading not allowed in current regime">> >>
        ELSE << >>)
    \o (IF position_size < 1 THEN << <<"Invalid position size">> >> ELSE << >>)

\* round(reward / risk, 2) of a ratio that lies within 0.005 of a tenth, in
\* tenths
rounded_ratio(reward_points, risk_points) ==
    IF risk_points > 0
    THEN (20 * reward_points + risk_points) \div (2 * risk_points)
    ELSE 0

\* the local values of build_trade_plan, up to the validation; the ratios
\* are cut to tenths, which keeps every comparison with a minimum that is a
\* whole number of tenths
trade_levels(builder, signal, snapshot, regime, options_intel) ==
    LET instrument_type ==
            select_instrument(signal.direction, snapshot, options_intel)
        current_price == get_instrument_price(instrument_type, snapshot)
        direction == to_trade_direction(signal.direction)
        entry_zone == calculate_entry_zone(current_price, direction, snapshot)
        stop_loss == calculate_stop_loss(entry_zone.optimal, direction, regime,
                                         snapshot)
        targets == calculate_targets(entry_zone.optimal, stop_loss, direction)
        risk_points == Abs(entry_zone.optimal - stop_loss)
        reward_t1_points == Abs(targets[1] - entry_zone.optimal)
        reward_t2_points == Abs(targets[2] - entry_zone.optimal)
        position_size == calculate_position_size(builder, risk_points)
    IN  [instrument_type |-> instrument_type,
         direction |-> direction,
         entry_zone |-> entry_zone,
         stop_loss |-> stop_loss,
         target_1 |-> targets[1],
         target_2 |-> targets[2],
         risk_points |-> risk_points,
         reward_t1_points |-> reward_t1_points,
         reward_t2_points |-> reward_t2_points,
         risk_reward_t1 |-> IF risk_points > 0
                            THEN (reward_t1_points * 10) \div risk_points
                            ELSE 0,
         risk_reward_t2 |-> IF risk_points > 0
                            THEN (reward_t2_points * 10) \div risk_points
                            ELSE 0,
         position_size |-> position_size,
         risk_amount |-> risk_points * position_size * builder.lot_size]

\* TradeBuilder.build_trade_plan: None for an invalid signal, the
\* ValidationError raised when EntryZone or TradePlan refuses its fields
\* (prices gt 0, points and ratios ge 0, position_size ge 1), else the
\* TradePlan
build_trade_plan(builder, signal, snapshot, regime, options_intel) ==
    IF ~signal.is_valid THEN [kind |-> "none"]
    ELSE LET l == trade_levels(builder, signal, snapshot, regime,
                               options_intel)
             reasons == validate_trade(builder, l.risk_reward_t2,
                                       l.risk_amount, l.position_size, regime)
         IN  IF ~l.entry_zone.constructed
             THEN [kind |-> "exception", error |-> "ValidationError",
                   model |-> "EntryZone"]
             ELSE IF \/ Round2(l.stop_loss) <= 0
                     \/ Round2(l.target_1) <= 0
                     \/ Round2(l.target_2) <= 0
                     \/ l.position_size < 1
             THEN [kind |-> "exception", error |-> "ValidationError",
                   model |-> "TradePlan"]
             ELSE [kind |-> "plan",
                   instrument_type |-> l.instrument_type,
                   direction |-> l.direction,
                   entry_zone |-> [lower |-> l.entry_zone.lower,
                                   upper |-> l.entry_zone.upper,
                                   optimal |-> l.entry_zone.optimal],
                   stop_loss |-> Round2(l.stop_loss),
                   target_1 |-> Round2(l.target_1),
                   target_2 |-> Round2(l.target_2),
                   risk_points |-> Round2(l.risk_points),
                   reward_t1_points |-> Round2(l.reward_t1_points),
                   reward_t2_points |-> Round2(l.reward_t2_points),
                   risk_reward_t1 |->
                       rounded_ratio(l.reward_t1_points, l.risk_points),
                   risk_reward_t2 |->
                       rounded_ratio(l.reward_t2_points, l.risk_points),
                   position_size |-> l.position_size,
                   lot_size |-> builder.lot_size,
                   risk_amount |-> Round2(l.risk_amount),
                   status |-> IF reasons = << >> THEN "pending" ELSE "rejected",
                   is_valid |-> reasons = << >>,
                   rejection_reasons |-> reasons]

----------------------------------------------------------------------------
(* The builder on its own: build_trade_plan applied to a signal, a          *)
(* snapshot, a regime and an options reading drawn from the sets below, by  *)
(* a builder of either minimum risk-reward.                                 *)

BuilderSignals ==
    {[is_valid |-> TRUE, direction |-> "LONG", validity_reasons |-> << >>],
     [is_valid |-> TRUE, direction |-> "SHORT", validity_reasons |-> << >>],
     [is_valid |-> FALSE, direction |-> "NEUTRAL",
      validity_reasons |-> << <<"Extreme volatility - high risk">> >>]}

\* session ranges of the index: none yet, 0.20, 10, 100, 400 and 480 points,
\* and 66.7004, whose stop distance (50.0253) is an odd number of units, so
\* that 1.5 and 2.5 times it fall between two representable prices (as they
\* do in double arithmetic for a range of 66.70 at an index of 48000)
BuilderRanges ==
    {0, Rupee \div 5, 10 * Rupee, 66 * Rupee + 7004, 100 * Rupee, 400 * Rupee,
     480 * Rupee}

\* the ATM premiums: both quoted at 30, or no ATM strike in the chain
BuilderPremiums == {<<30 * Rupee>>, << >>}

BuilderSnapshots ==
    {[age |-> 0, complete |-> TRUE,
      options_chain |->
          [OptionsChain(<<1, 2>>, 130, <<0, 0>>, 20)
               EXCEPT !.atm_call_ltp = premium, !.atm_put_ltp = premium],
      futures_ltp |-> 4800 * Rupee,
      spot_range |-> range_] :
        range_ \in BuilderRanges, premium \in BuilderPremiums}

BuilderRegimes ==
    {[trade_allowed |-> allowed,
      trade_rejection_reasons |->
          IF allowed THEN << >>
          ELSE << <<"Extreme volatility - high risk">> >>,
      opening_range |-> opening_range] :
        allowed \in BOOLEAN,
        opening_range \in {OpeningRange(TRUE, 4810 * Rupee, 4790 * Rupee),
                           OpeningRange(FALSE, 0, 0)}}

\* OptionsIntelligence as the builder reads it
BuilderOptionsIntel ==
    {[direction |-> "NEUTRAL", confidence |-> 0, oi_buildup_type |-> "neutral",
      pcr_interpretation |-> "neutral", iv_status |-> iv_status,
      iv_trend |-> "stable", has_conflict |-> FALSE,
      conflict_reasons |-> << >>] : iv_status \in {"normal", "extreme"}}

\* TradeBuilder(min_risk_reward=...): the setting (2.0), 2.5 or 3.0
BuilderMinRiskRewards == {0, 25, 30}

BuilderInput(builder, signal, snapshot, regime, options_intel) ==
    [kind |-> "builder_input", builder |-> builder, signal |-> signal,
     snapshot |-> snapshot, regime |-> regime, options_intel |-> options_intel]

BuilderInputs ==
    {BuilderInput(TradeBuilder(min_rr), signal, snapshot, regime, intel) :
        min_rr \in BuilderMinRiskRewards, signal \in BuilderSignals,
        snapshot \in BuilderSnapshots, regime \in BuilderRegimes,
        intel \in BuilderOptionsIntel}

InitBuilder ==
    /\ today = 1
    /\ risk_state = None
    /\ plans_table = [p \in PlanIds |-> "pending"]
    /\ trades_table = << >>
    /\ entries_recorded = 0
    /\ last_call = "construct"
    /\ call_arg \in BuilderInputs
    /\ result = NoResult
    /\ now = 0
    /\ data_buffer = DataBuffer(0, 0)
    /\ buffer_clears = 0
    /\ options_engine = OptionsIntelligenceEngine
    /\ RegimeConstructed

\* trade_builder.build_trade_plan(signal, snapshot, regime, confluence,
\* options_intel)
BuildTradePlan ==
    /\ last_call = "construct"
    /\ result' = build_trade_plan(call_arg.builder, call_arg.signal,
                                  call_arg.snapshot, call_arg.regime,
                                  call_arg.options_intel)
    /\ last_call' = "build_trade_plan"
    /\ UNCHANGED <<governor_vars, pipeline_vars, call_arg>>

NextBuilder == BuildTradePlan

SpecBuilder == InitBuilder /\ [][NextBuilder]_vars

----------------------------------------------------------------------------
(* Properties of the builder.                                               *)

Built == last_call = "build_trade_plan" /\ result.kind = "plan"

\* the local values of the build the state records
BuiltLevels ==
    trade_levels(call_arg.builder, call_arg.signal, call_arg.snapshot,
                 call_arg.regime, call_arg.options_intel)

\* C16: for every valid plan the builder emits, lower <= optimal <= upper;
\* a LONG plan has stop_loss < optimal < target_1 < target_2 and a SHORT
\* plan has target_2 < target_1 < optimal < stop_loss.
C16_LevelsOrdered ==
    (Built /\ result.is_valid)
        => /\ result.entry_zone.lower <= result.entry_zone.optimal
           /\ result.entry_zone.optimal <= result.entry_zone.upper
           /\ result.direction \in {"LONG", "SHORT"}
           /\ result.direction = "LONG"
                  => /\ result.stop_loss < result.entry_zone.optimal
                     /\ result.entry_zone.optimal < result.target_1
                     /\ result.target_1 < result.target_2
           /\ result.direction = "SHORT"
                  => /\ result.target_2 < result.target_1
                     /\ result.target_1 < result.entry_zone.optimal
                     /\ result.entry_zone.optimal < result.stop_loss

\* a valid SHORT plan on the ATM put
C16_Witness ==
    /\ Built
    /\ result.is_valid
    /\ result.direction = "SHORT"
    /\ result.instrument_type = "PE"

C17_RrOk == BuiltLevels.risk_reward_t2 >= call_arg.builder.min_risk_reward
C17_RiskOk == BuiltLevels.risk_amount <= call_arg.builder.max_risk_amount
C17_RegimeOk == call_arg.regime.trade_allowed
C17_LotsOk == result.position_size >= 1

C17_HasReason(text) ==
    \E i \in 1..Len(result.rejection_reasons) :
        result.rejection_reasons[i][1] = text

C17_Failing ==
    (IF C17_RrOk THEN 0 ELSE 1) + (IF C17_RiskOk THEN 0 ELSE 1)
        + (IF C17_RegimeOk THEN 0 ELSE 1) + (IF C17_LotsOk THEN 0 ELSE 1)

RiskPointSamples ==
    {Rupee \div 100, 10 * Rupee, 66 * Rupee, 67 * Rupee, 100 * Rupee,
     333 * Rupee, 334 * Rupee, 480 * Rupee}

Clamp(n) == Max(1, Min(n, 5))

C19_AlwaysReturnsPlan ==
    (last_call = "build_trade_plan" /\ call_arg.signal.is_valid)
        => result.kind = "plan"

----------------------------------------------------------------------------
(* The signal path: GET /signals/current over every chain, regime and       *)
(* confluence score of the sets above, and the builder applied to the       *)
(* signal the endpoint fused.                                               *)

SignalBufferConfigs == {<<2, 50>>}

InitSignal ==
    /\ AppConstructed
    /\ now = 0
    /\ data_buffer \in {DataBuffer(c[1], c[2]) : c \in SignalBufferConfigs}
    /\ buffer_clears = 0
    /\ options_engine = OptionsIntelligenceEngine
    /\ RegimeConstructed

\* GET /signals/current on a trading day
AnalyseCurrentSignal ==
    GetCurrentSignalFrom(SignalSnapshots, {TRUE}, RegimeResults,
                         ConfluenceResults)

\* trade_builder.build_trade_plan on the signal, snapshot, regime and options
\* reading of the last response
BuildPlanForSignal ==
    /\ last_call = "get_current_signal"
    /\ result.kind = "signal"
    /\ last_call' = "build_plan_for_signal"
    /\ call_arg' = NoArg
    /\ result' =
           [kind |-> "built",
            signal |-> result.signal,
            options_intel |-> result.options_intel,
            plan |-> build_trade_plan(TradeBuilder(0), result.signal,
                                      result.snapshot, result.regime,
                                      result.options_intel)]
    /\ UNCHANGED <<governor_vars, pipeline_vars>>

NextSignal ==
    \/ AnalyseCurrentSignal
    \/ BuildPlanForSignal

SpecSignal == InitSignal /\ [][NextSignal]_vars

\* C20: whenever the options analysis reports has_conflict, its direction is
\* NEUTRAL, its confidence is 0 and conflict_reasons is non-empty, the fused
\* signal is invalid with direction NEUTRAL, and build_trade_plan returns
\* None for that signal.
C20_ConflictMeansNoTrade ==
    /\ (result.kind \in {"signal", "built"}
            /\ result.options_intel.has_conflict)
           => /\ result.options_intel.direction = "NEUTRAL"
              /\ result.options_intel.confidence = 0
              /\ Len(result.options_intel.conflict_reasons) > 0
              /\ ~result.signal.is_valid
              /\ result.signal.direction = "NEUTRAL"
    /\ (result.kind = "built" /\ result.options_intel.has_conflict)
           => result.plan.kind = "none"

\* the builder was handed the signal fused from a conflicted options reading
\* while the regime and the confluence score both allowed a trade
C20_Witness ==
    /\ last_call = "build_plan_for_signal"
    /\ result.kind = "built"
    /\ result.options_intel.has_conflict
    /\ Len(result.signal.validity_reasons) > 0
    /\ result.plan.kind = "none"

----------------------------------------------------------------------------
(* Signal fusion: GET /signals/current over every regime outcome, every     *)
(* confluence outcome calculate_confluence can return (eligible only with   *)
(* a direction) and every direction reading of the options chain.           *)

FusionChains ==
    {OptionsChain(oi, pcr, walls, 20) :
        oi \in SignalOiChanges, pcr \in SignalPcrs, walls \in SignalWalls}

FusionSnapshots == {BrokerSnapshot(0, TRUE, chain) : chain \in FusionChains}

FusionConfluences ==
    {[is_eligible |-> eligible, direction |-> direction] :
        eligible \in BOOLEAN, direction \in {"LONG", "SHORT", "NEUTRAL"}}
    \ {[is_eligible |-> TRUE, direction |-> "NEUTRAL"]}

FuseCurrentSignal ==
    GetCurrentSignalFrom(FusionSnapshots, {TRUE}, RegimeResults,
                         FusionConfluences)

NextFusion == FuseCurrentSignal

SpecFusion == InitSignal /\ [][NextFusion]_vars

C21_Agree(direction) ==
    /\ result.confluence.direction = direction
    /\ result.options_intel.direction = direction

\* C21: the fused signal is valid iff the regime allows trading, the
\* confluence is eligible, the options reading has no conflict and both
\* directions are LONG or both are SHORT; its direction is LONG iff valid
\* with both LONG, SHORT iff valid with both SHORT, NEUTRAL otherwise.
C21_ValidIffAllAgree ==
    result.kind = "signal"
        => /\ result.signal.is_valid
                  <=> /\ result.regime.trade_allowed
                      /\ result.confluence.is_eligible
                      /\ ~result.options_intel.has_conflict
                      /\ C21_Agree("LONG") \/ C21_Agree("SHORT")
           /\ result.signal.direction = "LONG"
                  <=> (result.signal.is_valid /\ C21_Agree("LONG"))
           /\ result.signal.direction = "SHORT"
                  <=> (result.signal.is_valid /\ C21_Agree("SHORT"))
           /\ result.signal.direction \in {"LONG", "SHORT", "NEUTRAL"}

\* the regime allows trading and the confluence is eligible and LONG, but
\* the options reading, free of conflict, votes SHORT: invalid and NEUTRAL
C21_Witness ==
    /\ result.kind = "signal"
    /\ result.regime.trade_allowed
    /\ result.confluence.is_eligible
    /\ result.confluence.direction = "LONG"
    /\ ~result.options_intel.has_conflict
    /\ result.options_intel.direction = "SHORT"
    /\ ~result.signal.is_valid
    /\ result.signal.direction = "NEUTRAL"

\* a valid LONG signal
C21_WitnessValid ==
    /\ result.kind = "signal"
    /\ result.signal.is_valid
    /\ result.signal.direction = "LONG"

\* C22: every fused signal with is_valid = false carries a non-empty list
\* of validity reasons, whatever suppressed it.
C22_InvalidHasReasons ==
    (result.kind = "signal" /\ ~result.signal.is_valid)
        => Len(result.signal.validity_reasons) > 0

----------------------------------------------------------------------------
(* The market regime engine (src/src/regime/engine.py).  Times of day are   *)
(* minutes since midnight, index levels whole points, VIX values tenths,    *)
(* the ATR ratio and the VWAP slope hundredths.                             *)

market_open_time == 555          \* 09:15
opening_range_end_time == 570    \* 09:30
market_close_time == 930         \* 15:30
close_cutoff == 900              \* 15:00
atr_high_threshold == 130
atr_extreme_threshold == 180
vwap_slope_threshold == 10

\* VIXData.change_pct > p
vix_change_above(vix, p) ==
    /\ vix.prev_close > 0
    /\ (vix.value - vix.prev_close) * 100 > p * vix.prev_close

\* VIXData.change_pct < -p
vix_change_below(vix, p) ==
    /\ vix.prev_close > 0
    /\ (vix.value - vix.prev_close) * 100 < (0 - p) * vix.prev_close

\* VIXData.change_pct as "{:.1f}" prints it, in tenths of a percent
vix_change_tenths(vix) ==
    IF vix.prev_close <= 0 THEN 0
    ELSE ((vix.value - vix.prev_close) * 2000 + vix.prev_close)
             \div (2 * vix.prev_close)

vix_direction(vix) ==
    IF vix_change_above(vix, 3) THEN "rising"
    ELSE IF vix_change_below(vix, 3) THEN "falling"
    ELSE "stable"

vix_level(vix) ==
    IF vix.value < 120 THEN "low"
    ELSE IF vix.value < 180 THEN "normal"
    ELSE IF vix.value < 250 THEN "elevated"
    ELSE "extreme"

determine_volatility(atr_ratio, vix) ==
    IF atr_ratio >= atr_extreme_threshold \/ vix_level(vix) = "extreme"
    THEN "extreme"
    ELSE IF atr_ratio >= atr_high_threshold \/ vix_level(vix) = "elevated"
    THEN "high"
    ELSE IF atr_ratio >= 80 /\ vix_level(vix) \in {"normal", "low"}
    THEN "normal"
    ELSE "low"

\* opening_range and opening_range.captured
or_captured(opening_range) ==
    opening_range # None /\ opening_range.captured

determine_trend(price, vwap, vwap_slope, opening_range) ==
    LET by_vwap == IF price * 1000 > vwap * 1001 THEN 1
                   ELSE IF price * 1000 < vwap * 999 THEN -1 ELSE 0
        by_slope == IF vwap_slope > vwap_slope_threshold THEN 1
                    ELSE IF vwap_slope < 0 - vwap_slope_threshold THEN -1
                    ELSE 0
        by_range == IF ~or_captured(opening_range) THEN 0
                    ELSE IF price > opening_range.high THEN 1
                    ELSE IF price < opening_range.low THEN -1
                    ELSE 0
        votes == <<by_vwap, by_slope, by_range>>
        bullish_signals == Cardinality({i \in 1..3 : votes[i] = 1})
        bearish_signals == Cardinality({i \in 1..3 : votes[i] = -1})
    IN  IF bullish_signals >= 2 THEN "up"
        ELSE IF bearish_signals >= 2 THEN "down"
        ELSE "sideways"

RECURSIVE MaxHigh(_)
MaxHigh(candles) ==
    IF Len(candles) = 1 THEN candles[1].high
    ELSE Max(candles[1].high, MaxHigh(Tail(candles)))

RECURSIVE MinLow(_)
MinLow(candles) ==
    IF Len(candles) = 1 THEN candles[1].low
    ELSE Min(candles[1].low, MinLow(Tail(candles)))

\* _finalize_opening_range
finalize_opening_range(engine) ==
    IF engine.or_candles = << >> THEN engine
    ELSE [engine EXCEPT
              !.opening_range = OpeningRange(TRUE, MaxHigh(engine.or_candles),
                                             MinLow(engine.or_candles))]

\* update_opening_range(spot) at time of day t: the engine it leaves
update_opening_range(engine, spot, t) ==
    IF ~(market_open_time <= t /\ t <= opening_range_end_time)
    THEN IF engine.or_candles # << >> /\ ~or_captured(engine.opening_range)
         THEN finalize_opening_range(engine)
         ELSE engine
    ELSE LET candles == Append(engine.or_candles, spot)
         IN  [opening_range |-> OpeningRange(FALSE, MaxHigh(candles),
                                             MinLow(candles)),
              or_candles |-> candles]

determine_regime_type(spot, volatility, trend, vwap_slope, opening_range, vix, t) ==
    LET captured == or_captured(opening_range)
        abs_slope == IF vwap_slope < 0 THEN 0 - vwap_slope ELSE vwap_slope
        distance_to_high ==
            IF spot.ltp >= opening_range.high
            THEN spot.ltp - opening_range.high
            ELSE opening_range.high - spot.ltp
        distance_to_low ==
            IF spot.ltp >= opening_range.low
            THEN spot.ltp - opening_range.low
            ELSE opening_range.low - spot.ltp
    IN  IF t <= opening_range_end_time
        THEN [regime |-> "opening_range",
              reasons |-> << <<"Within opening range period (9:15-9:30)">> >>]
        ELSE IF volatility = "extreme"
        THEN [regime |-> "volatile",
              reasons |-> << <<"Extreme volatility detected", vix.value>> >>]
        ELSE IF /\ captured
                /\ spot.ltp > opening_range.high
                /\ trend = "up"
                /\ vwap_slope > 5
        THEN [regime |-> "trending_bullish",
              reasons |->
                  << <<"Price above OR high with positive VWAP slope">>,
                     <<"Bullish trend confirmed", vwap_slope>> >>]
        ELSE IF /\ captured
                /\ ~(spot.ltp > opening_range.high)
                /\ spot.ltp < opening_range.low
                /\ trend = "down"
                /\ vwap_slope < -5
        THEN [regime |-> "trending_bearish",
              reasons |->
                  << <<"Price below OR low with negative VWAP slope">>,
                     <<"Bearish trend confirmed", vwap_slope>> >>]
        ELSE IF abs_slope > 15
        THEN IF vwap_slope > 0
             THEN [regime |-> "trending_bullish",
                   reasons |-> << <<"Strong positive VWAP slope", vwap_slope>> >>]
             ELSE [regime |-> "trending_bearish",
                   reasons |-> << <<"Strong negative VWAP slope", vwap_slope>> >>]
        ELSE IF /\ captured
                /\ Min(distance_to_high, distance_to_low) * 10
                       < (opening_range.high - opening_range.low) * 3
                /\ volatility = "low"
        THEN [regime |-> "pre_breakout",
              reasons |-> << <<"Price near OR levels with low volatility">>,
                             <<"Potential breakout setup forming">> >>]
        ELSE IF volatility = "high"
        THEN [regime |-> "volatile",
              reasons |-> << <<"High volatility without clear trend">> >>]
        ELSE [regime |-> "range_bound",
              reasons |-> << <<"No clear trend or breakout">>,
                             <<"Price trading within range", vwap_slope>> >>]

\* _is_trade_allowed: the first condition that holds decides and gives the
\* one reason
is_trade_allowed(regime, volatility, vix, t) ==
    IF t <= opening_range_end_time
    THEN [allowed |-> FALSE,
          reasons |->
              << <<"Opening range period - wait for OR completion">> >>]
    ELSE IF volatility = "extreme"
    THEN [allowed |-> FALSE,
          reasons |-> << <<"Extreme volatility", vix.value>> >>]
    ELSE IF regime = "volatile"
    THEN [allowed |-> FALSE,
          reasons |->
              << <<"Volatile market conditions - no clear direction">> >>]
    ELSE IF vix_direction(vix) = "rising" /\ vix_change_above(vix, 10)
    THEN [allowed |-> FALSE,
          reasons |-> << <<"VIX spiking", vix_change_tenths(vix)>> >>]
    ELSE IF t >= close_cutoff
    THEN [allowed |-> FALSE, reasons |-> << <<"Too close to market close">> >>]
    ELSE [allowed |-> TRUE, reasons |-> << >>]

\* classify_regime(snapshot, prices, volumes) at time of day t, where the
\* buffered prices give the ATR ratio, the VWAP and its slope: the
\* MarketRegime it returns and the engine it leaves
classify_regime(engine, snapshot, t, atr_ratio, vwap, vwap_slope) ==
    LET updated == update_opening_range(engine, snapshot.spot, t)
        volatility == determine_volatility(atr_ratio, snapshot.vix)
        trend == determine_trend(snapshot.spot.ltp, vwap, vwap_slope,
                                 updated.opening_range)
        typed == determine_regime_type(snapshot.spot, volatility, trend,
                                       vwap_slope, updated.opening_range,
                                       snapshot.vix, t)
        allowed == is_trade_allowed(typed.regime, volatility, snapshot.vix, t)
    IN  [regime |->
             [regime |-> typed.regime,
              volatility |-> volatility,
              trend_direction |-> trend,
              trade_allowed |-> allowed.allowed,
              opening_range |-> updated.opening_range,
              vix_direction |-> vix_direction(snapshot.vix),
              vix_level |-> vix_level(snapshot.vix),
              regime_reasons |-> typed.reasons,
              trade_rejection_reasons |-> allowed.reasons],
         engine |-> updated]

----------------------------------------------------------------------------
(* classify_regime on its own: the time of day, the engine, the snapshot    *)
(* and the readings of the buffered prices drawn from the sets below.       *)

\* 09:00, 09:15, 09:22, 09:30, 09:31, 12:00, 15:00, 15:31
DayTimes == {540, 555, 562, 570, 571, 720, 900, 931}

SpotLevels == {4780, 4800, 4820}
SpotData(ltp) == [ltp |-> ltp, high |-> ltp + 5, low |-> ltp - 5]

\* VIX value and previous close, in tenths
VixReadings ==
    {<<110, 110>>, <<140, 140>>, <<145, 140>>, <<160, 140>>, <<200, 200>>,
     <<260, 250>>}
VIXData(value, prev_close) == [value |-> value, prev_close |-> prev_close]

AtrRatios == {70, 100, 130, 180}
VwapSlopes == {-20, -8, 0, 8, 20}
SessionVwap == 4800

RegimeSnapshots ==
    {[spot |-> SpotData(ltp), vix |-> VIXData(v[1], v[2])] :
        ltp \in SpotLevels, v \in VixReadings}

ClassifyInput(snapshot, atr_ratio, vwap, vwap_slope) ==
    [kind |-> "classify_input", snapshot |-> snapshot,
     atr_ratio |-> atr_ratio, vwap |-> vwap, vwap_slope |-> vwap_slope]

ClassifyInputs ==
    {ClassifyInput(snapshot, atr_ratio, SessionVwap, vwap_slope) :
        snapshot \in RegimeSnapshots, atr_ratio \in AtrRatios,
        vwap_slope \in VwapSlopes}

\* the engine after an opening range of 4790..4810 was captured
CapturedEngine ==
    [opening_range |-> OpeningRange(TRUE, 4810, 4790),
     or_candles |-> << [ltp |-> 4800, high |-> 4810, low |-> 4790] >>]

InitClassify ==
    /\ today = 1
    /\ risk_state = None
    /\ plans_table = [p \in PlanIds |-> "pending"]
    /\ trades_table = << >>
    /\ entries_recorded = 0
    /\ last_call = "construct"
    /\ call_arg \in ClassifyInputs
    /\ result = NoResult
    /\ now = 0
    /\ data_buffer = DataBuffer(0, 0)
    /\ buffer_clears = 0
    /\ options_engine = OptionsIntelligenceEngine
    /\ time_of_day \in DayTimes
    /\ regime_engine \in
           IF time_of_day > opening_range_end_time
           THEN {MarketRegimeEngine, CapturedEngine}
           ELSE {MarketRegimeEngine}
    /\ or_received = NothingReceived
    /\ reader = ReaderIdle

\* regime_engine.classify_regime(snapshot, prices, volumes)
ClassifyRegime ==
    /\ last_call = "construct"
    /\ LET classified ==
               classify_regime(regime_engine, call_arg.snapshot, time_of_day,
                               call_arg.atr_ratio, call_arg.vwap,
                               call_arg.vwap_slope)
       IN  /\ result' = classified.regime
           /\ regime_engine' = classified.engine
    /\ last_call' = "classify_regime"
    /\ UNCHANGED <<governor_vars, now, data_buffer, buffer_clears,
                   options_engine, time_of_day, or_received, reader, call_arg>>

NextClassify == ClassifyRegime

SpecClassify == InitClassify /\ [][NextClassify]_vars

Classified == last_call = "classify_regime"

C23_InPeriod ==
    market_open_time <= time_of_day /\ time_of_day <= opening_range_end_time
C23_Extreme == result.volatility = "extreme"
C23_Volatile == result.regime = "volatile"
C23_VixSpike ==
    /\ vix_direction(call_arg.snapshot.vix) = "rising"
    /\ vix_change_above(call_arg.snapshot.vix, 10)
C23_Late == time_of_day >= close_cutoff

C23_HasReason(text) ==
    \E i \in 1..Len(result.trade_rejection_reasons) :
        result.trade_rejection_reasons[i][1] = text

\* C23: trade_allowed is false iff at least one suppression condition holds
\* (inside the opening range period, volatility extreme, regime VOLATILE,
\* VIX rising with change > +10 %, time >= 15:00), and the rejection reasons
\* contain a reason for each suppression condition that holds.
C23_SuppressionsAndReasons ==
    Classified
        => /\ ~result.trade_allowed
                  <=> \/ C23_InPeriod
                      \/ C23_Extreme
                      \/ C23_Volatile
                      \/ C23_VixSpike
                      \/ C23_Late
           /\ C23_InPeriod
                  => C23_HasReason("Opening range period - wait for OR completion")
           /\ C23_Extreme => C23_HasReason("Extreme volatility")
           /\ C23_Volatile
                  => C23_HasReason("Volatile market conditions - no clear direction")
           /\ C23_VixSpike => C23_HasReason("VIX spiking")
           /\ C23_Late => C23_HasReason("Too close to market close")

\* the part of C23 the code keeps: trading is refused exactly when the time
\* is at or before 09:30 or one of the other four conditions holds, with
\* the reason of the first condition in the order of the claim
C23_FirstReasonOnly ==
    Classified
        => /\ ~result.trade_allowed
                  <=> \/ time_of_day <= opening_range_end_time
                      \/ C23_Extreme
                      \/ C23_Volatile
                      \/ C23_VixSpike
                      \/ C23_Late
           /\ Len(result.trade_rejection_reasons)
                  = IF result.trade_allowed THEN 0 ELSE 1

\* S: at 09:22 the regime is opening-range, trading is refused and the
\* reason names the opening range period
C23_Scenario ==
    (Classified /\ time_of_day = 562)
        => /\ result.regime = "opening_range"
           /\ ~result.trade_allowed
           /\ C23_HasReason("Opening range period - wait for OR completion")

----------------------------------------------------------------------------
(* A trading day of the pipeline: the fetch job, the signal job, the        *)
(* GET /signals/current endpoint and the day start job, each reading the    *)
(* time of day; or_received keeps what the pipeline received in the         *)
(* opening range period of the day.                                         *)

MaxRegimeAdds == 3     \* snapshots added to the buffer
MaxOrCandles == 2      \* candles collected in the opening range period

\* DataValidator.is_market_open on a weekday
is_market_open(t) == market_open_time <= t /\ t <= market_close_time

\* DataValidator.is_opening_range_period on a weekday
is_opening_range_period(t) ==
    market_open_time <= t /\ t <= opening_range_end_time

DaySnapshots ==
    {[age |-> 0, complete |-> TRUE,
      options_chain |-> OptionsChain(<<1, 2>>, 130, <<0, 0>>, 20),
      spot |-> SpotData(ltp), vix |-> VIXData(140, 140)] :
        ltp \in {4800, 4820}}

\* the item add_snapshot stores: the snapshot with its timestamp and whether
\* validate_snapshot accepts it
buffered_snapshot(snapshot, t, within_hours) ==
    [timestamp |-> t - snapshot.age, complete |-> snapshot.complete,
     valid |-> validate_snapshot(snapshot, TRUE, within_hours).is_valid,
     snapshot |-> snapshot]

\* or_received after one more snapshot came in at time of day t: the count,
\* max high and min low of those of the opening range period, and whether
\* one came in after the period
received(seen, snapshot, t) ==
    IF t > opening_range_end_time THEN [seen EXCEPT !.later = TRUE]
    ELSE IF ~is_opening_range_period(t) THEN seen
    ELSE IF seen.count = 0
    THEN [seen EXCEPT !.count = 1, !.high = snapshot.spot.high,
                      !.low = snapshot.spot.low]
    ELSE [seen EXCEPT !.count = seen.count + 1,
                      !.high = Max(seen.high, snapshot.spot.high),
                      !.low = Min(seen.low, snapshot.spot.low)]

InitRegime ==
    /\ AppConstructed
    /\ now = 0
    /\ data_buffer = DataBuffer(2, 50)
    /\ buffer_clears = 0
    /\ options_engine = OptionsIntelligenceEngine
    /\ time_of_day = 540
    /\ regime_engine = MarketRegimeEngine
    /\ or_received = NothingReceived
    /\ reader = ReaderIdle

\* the process clock moves on within the day
AdvanceClock ==
    \E t \in DayTimes :
        /\ t > time_of_day
        /\ time_of_day' = t
        /\ last_call' = "clock"
        /\ call_arg' = NoArg
        /\ result' = NoResult
        /\ UNCHANGED <<governor_vars, now, data_buffer, buffer_clears,
                       options_engine, regime_engine, or_received, reader>>

\* SignalScheduler._fetch_market_data at the time of day
FetchMarketDataAt ==
    \E broker_up \in BOOLEAN, snapshot \in DaySnapshots :
        /\ data_buffer.update_count < MaxRegimeAdds
        /\ last_call' = "fetch_market_data"
        /\ call_arg' = NoArg
        /\ UNCHANGED <<governor_vars, now, buffer_clears, options_engine,
                       time_of_day, regime_engine, reader>>
        /\ IF ~is_market_open(time_of_day)
           THEN /\ result' = [kind |-> "fetch", outcome |-> "market_closed"]
                /\ UNCHANGED <<data_buffer, or_received>>
           ELSE IF ~broker_up
           THEN /\ result' = [kind |-> "fetch", outcome |-> "no_snapshot"]
                /\ UNCHANGED <<data_buffer, or_received>>
           ELSE IF validate_snapshot(snapshot, TRUE, TRUE).is_valid
           THEN /\ result' = [kind |-> "fetch", outcome |-> "added"]
                /\ data_buffer' =
                       buffer_append(data_buffer,
                                     buffered_snapshot(snapshot, now, TRUE),
                                     now)
                /\ or_received' = received(or_received, snapshot, time_of_day)
           ELSE /\ result' = [kind |-> "fetch", outcome |-> "discarded"]
                /\ UNCHANGED <<data_buffer, or_received>>

\* SignalScheduler._generate_signal at the time of day: past its three
\* gates it classifies the regime on the latest buffered snapshot
GenerateSignalAt ==
    /\ last_call' = "generate_signal"
    /\ call_arg' = NoArg
    /\ UNCHANGED <<governor_vars, now, data_buffer, buffer_clears,
                   options_engine, time_of_day, or_received, reader>>
    /\ IF ~is_market_open(time_of_day)
       THEN /\ result' = [kind |-> "signal_job", outcome |-> "market_closed"]
            /\ UNCHANGED regime_engine
       ELSE IF ~is_ready(data_buffer)
       THEN /\ result' = [kind |-> "signal_job", outcome |-> "buffer_not_ready"]
            /\ UNCHANGED regime_engine
       ELSE IF is_opening_range_period(time_of_day)
       THEN /\ result' = [kind |-> "signal_job", outcome |-> "opening_range"]
            /\ UNCHANGED regime_engine
       ELSE IF is_empty(data_buffer)
       THEN /\ result' = [kind |-> "signal_job", outcome |-> "no_snapshot"]
            /\ UNCHANGED regime_engine
       ELSE LET latest == data_buffer.buffer[Len(data_buffer.buffer)].snapshot
                classified == classify_regime(regime_engine, latest,
                                              time_of_day, 100, SessionVwap, 0)
            IN  /\ result' = [kind |-> "signal_job",
                              outcome |-> "regime_classified",
                              regime |-> classified.regime]
                /\ regime_engine' = classified.engine

\* GET /signals/current at the time of day, the regime classified by the
\* engine on the snapshot the broker returned
GetCurrentSignalAt ==
    \E broker_up \in BOOLEAN, snapshot \in DaySnapshots,
       confluence \in PipelineConfluences :
        /\ data_buffer.update_count < MaxRegimeAdds
        /\ Len(options_engine.iv_history) < MaxIvSamples
        /\ Len(regime_engine.or_candles) < MaxOrCandles
        /\ last_call' = "get_current_signal"
        /\ call_arg' = NoArg
        /\ UNCHANGED <<governor_vars, now, buffer_clears, time_of_day, reader>>
        /\ IF ~broker_up
           THEN /\ result' = HttpResponse(503)
                /\ UNCHANGED <<data_buffer, options_engine, regime_engine,
                               or_received>>
           ELSE LET filled ==
                        buffer_append(data_buffer,
                            buffered_snapshot(snapshot, now,
                                              is_market_open(time_of_day)),
                            now)
                    classified == classify_regime(regime_engine, snapshot,
                                                  time_of_day, 100,
                                                  SessionVwap, 0)
                    analysed == analyze(options_engine, snapshot.options_chain)
                IN  /\ data_buffer' = filled
                    /\ or_received' =
                           received(or_received, snapshot, time_of_day)
                    /\ IF ~is_ready(filled)
                       THEN /\ result' =
                                   [kind |-> "buffer_filling",
                                    message |-> get_no_trade_reason(filled, now)]
                            /\ UNCHANGED <<options_engine, regime_engine>>
                       ELSE /\ regime_engine' = classified.engine
                            /\ options_engine' = analysed.engine
                            /\ result' =
                                   [kind |-> "signal",
                                    signal |-> fuse_signal(classified.regime,
                                                           confluence,
                                                           analysed.intel),
                                    options_intel |-> analysed.intel,
                                    regime |-> classified.regime,
                                    confluence |-> confluence,
                                    snapshot |-> snapshot]

NextRegime ==
    \/ AdvanceClock
    \/ FetchMarketDataAt
    \/ GenerateSignalAt
    \/ GetCurrentSignalAt
    \/ DayStart

SpecRegime == InitRegime /\ [][NextRegime]_vars

\* the call that just returned processed a snapshot after the opening range
\* period had ended
C24_ProcessedAfterEnd ==
    /\ time_of_day > opening_range_end_time
    /\ \/ /\ last_call = "generate_signal"
          /\ result.kind = "signal_job"
          /\ result.outcome = "regime_classified"
       \/ /\ last_call = "get_current_signal"
          /\ result.kind = "signal"

C24_Captured ==
    (or_received.count > 0 /\ or_received.later /\ C24_ProcessedAfterEnd)
        => /\ or_captured(regime_engine.opening_range)
           /\ regime_engine.opening_range.high = or_received.high
           /\ regime_engine.opening_range.low = or_received.low

C24_Frozen ==
    (or_captured(regime_engine.opening_range) /\ last_call' # "day_start")
        => regime_engine'.opening_range = regime_engine.opening_range

\* C24: on a day on which the pipeline receives snapshots during the opening
\* range period and after it, the opening range is captured when the first
\* snapshot after the end of the period is processed, with the max high and
\* min low of the snapshots of the period, and stays as it is until
\* reset_day.
C24_CapturedOncePerDay == []C24_Captured /\ [][C24_Frozen]_vars

\* what the engine does keep: once captured the opening range is not touched
\* until the day start job resets the engine
C24_FrozenUntilReset == [][C24_Frozen]_vars

----------------------------------------------------------------------------
(* The suggested position size of a rejected risk check.                    *)

C25_SizingRejection ==
    /\ last_call = "check_trade_risk"
    /\ ~result.is_allowed
    /\ Len(result.rejection_reasons) = 1
    /\ result.rejection_reasons[1][1] = "Trade risk exceeds remaining capacity"

\* C25: when check_trade_risk rejects a plan because its risk_amount exceeds
\* the remaining risk capacity, the result carries suggested_position_size =
\* max(1, floor(remaining_risk_capacity / (risk_points * lot_size))), a lot
\* count >= 1.
C25_SuggestsAtLeastOneLot ==
    C25_SizingRejection
        => /\ call_arg.risk_points * call_arg.lot_size > 0
           /\ result.suggested_position_size =
                  <<Max(1, risk_state.remaining_risk_capacity
                               \div (call_arg.risk_points * call_arg.lot_size))>>

\* what the code returns on a sizing rejection: the floor when it is at
\* least 1, nothing when not even one lot fits the remaining capacity
C25_SuggestsWhatFits ==
    C25_SizingRejection
        => LET lots == risk_state.remaining_risk_capacity
                           \div (call_arg.risk_points * call_arg.lot_size)
           IN  result.suggested_position_size
                   = IF lots >= 1 THEN <<lots>> ELSE << >>

----------------------------------------------------------------------------
(* RiskStateRepository: the daily_risk_state row of a risk state.           *)

\* save(state): the row it upserts.  max_loss_reached, max_trades_reached,
\* trades_remaining, unrealized_pnl, max_consecutive_losses and the best and
\* worst trade are not columns of the table.
risk_state_row(state) ==
    [date |-> state.date,
     trades_taken |-> state.trades_taken,
     max_trades |-> state.max_trades,
     total_pnl |-> state.total_pnl,
     realized_pnl |-> state.realized_pnl,
     consecutive_losses |-> state.consecutive_losses,
     starting_capital |-> state.starting_capital,
     current_capital |-> state.current_capital,
     max_daily_loss_amount |-> state.max_daily_loss_amount,
     remaining_risk_capacity |-> state.remaining_risk_capacity,
     hard_shutdown |-> state.hard_shutdown,
     shutdown_reason |-> state.shutdown_reason,
     status |-> state.status]

\* DailyRiskState(**row): the fields the row carries, the declared default
\* for every other field; None when a field constraint (ge=0, ge=1, gt=0)
\* rejects the row.
DailyRiskStateOfRow(row) ==
    IF \/ row.trades_taken < 0
       \/ row.max_trades < 1
       \/ row.consecutive_losses < 0
       \/ row.starting_capital <= 0
       \/ row.current_capital <= 0
       \/ row.max_daily_loss_amount < 0
       \/ row.remaining_risk_capacity < 0
    THEN None
    ELSE [date |-> row.date,
          trades_taken |-> row.trades_taken,
          max_trades |-> row.max_trades,
          trades_remaining |-> 2,
          total_pnl |-> row.total_pnl,
          realized_pnl |-> row.realized_pnl,
          unrealized_pnl |-> 0,
          consecutive_losses |-> row.consecutive_losses,
          max_consecutive_losses |-> 2,
          worst_trade_pnl |-> 0,
          best_trade_pnl |-> 0,
          starting_capital |-> row.starting_capital,
          current_capital |-> row.current_capital,
          max_daily_loss_amount |-> row.max_daily_loss_amount,
          remaining_risk_capacity |-> row.remaining_risk_capacity,
          max_loss_reached |-> FALSE,
          max_trades_reached |-> FALSE,
          hard_shutdown |-> row.hard_shutdown,
          status |-> row.status,
          shutdown_reason |-> row.shutdown_reason]

can_trade(state) ==
    /\ ~state.hard_shutdown
    /\ ~state.max_loss_reached
    /\ ~state.max_trades_reached
    /\ state.remaining_risk_capacity > 0

\* C26: for every reachable daily risk state, the state re-loaded from the
\* row that save writes for it has the same can_trade value and the same
\* status value.
C26_RoundTripKeepsCanTradeAndStatus ==
    Initialized
        => LET loaded == DailyRiskStateOfRow(risk_state_row(risk_state))
           IN  /\ loaded # None
               /\ can_trade(loaded) = can_trade(risk_state)
               /\ loaded.status = risk_state.status

\* what the row does keep: the status, and hard_shutdown with its reason
C26_RowKeepsStatus ==
    Initialized
        => /\ risk_state_row(risk_state).status = risk_state.status
           /\ risk_state_row(risk_state).hard_shutdown = risk_state.hard_shutdown
           /\ (can_trade(risk_state)
                  => can_trade(DailyRiskStateOfRow(risk_state_row(risk_state))))

----------------------------------------------------------------------------
(* A reader thread evaluating DataBuffer.status while the writer thread     *)
(* appends and clears.  append, clear and size hold the buffer's lock, so   *)
(* each is one step; status itself takes no lock, so the writer may run     *)
(* between the reads it makes: size (is_empty), size again (is_ready),      *)
(* _last_update_time (the truthiness test) and _last_update_time again      *)
(* (the subtraction).                                                       *)

ReaderPositions == {"is_empty", "is_ready", "last_update", "staleness"}

\* the statuses the buffer has had since the reader's call began
observed(r, b, t) ==
    IF r.pc \in ReaderPositions
    THEN [r EXCEPT !.seen = @ \cup {buffer_status(b, t)}]
    ELSE r

returned(r, value) == [pc |-> "done", seen |-> r.seen, value |-> value]

InitThreads ==
    /\ AppConstructed
    /\ now = 0
    /\ data_buffer \in {DataBuffer(2, 50), DataBuffer(4, 60)}
    /\ buffer_clears = 0
    /\ options_engine = OptionsIntelligenceEngine
    /\ RegimeConstructed

\* the writer thread: DataBuffer.append(item)
WriterAppend ==
    /\ data_buffer.update_count < MaxAppends
    /\ data_buffer' = buffer_append(data_buffer, Snapshot(now, TRUE, TRUE), now)
    /\ reader' = observed(reader, data_buffer', now)
    /\ last_call' = "append"
    /\ call_arg' = NoArg
    /\ result' = NoResult
    /\ UNCHANGED <<governor_vars, now, buffer_clears, options_engine,
                   time_of_day, regime_engine, or_received>>

\* the writer thread: DataBuffer.clear()
WriterClear ==
    /\ buffer_clears < MaxClears
    /\ data_buffer' = buffer_clear(data_buffer)
    /\ buffer_clears' = buffer_clears + 1
    /\ reader' = observed(reader, data_buffer', now)
    /\ last_call' = "clear"
    /\ call_arg' = NoArg
    /\ result' = NoResult
    /\ UNCHANGED <<governor_vars, now, options_engine,
                   time_of_day, regime_engine, or_received>>

\* time passes
ClockTick ==
    \E d \in ClockSteps :
        /\ now + d <= MaxTime
        /\ now' = now + d
        /\ reader' = observed(reader, data_buffer, now')
        /\ last_call' = "tick"
        /\ call_arg' = NoArg
        /\ result' = NoResult
        /\ UNCHANGED <<governor_vars, data_buffer, buffer_clears,
                       options_engine, time_of_day, regime_engine, or_received>>

\* the reader thread enters DataBuffer.status
StatusCall ==
    /\ reader.pc \in {"idle", "done"}
    /\ reader' = [pc |-> "is_empty",
                  seen |-> {buffer_status(data_buffer, now)}]
    /\ last_call' = "status_call"
    /\ call_arg' = NoArg
    /\ result' = NoResult
    /\ UNCHANGED <<governor_vars, now, data_buffer, buffer_clears,
                   options_engine, time_of_day, regime_engine, or_received>>

\* "if self.is_empty: return BufferStatus.EMPTY"
StatusReadsIsEmpty ==
    /\ reader.pc = "is_empty"
    /\ reader' = IF buffer_size(data_buffer) = 0
                 THEN returned(reader, "empty")
                 ELSE [reader EXCEPT !.pc = "is_ready"]
    /\ last_call' = "status_is_empty"
    /\ call_arg' = NoArg
    /\ result' = NoResult
    /\ UNCHANGED <<governor_vars, now, data_buffer, buffer_clears,
                   options_engine, time_of_day, regime_engine, or_received>>

\* "elif not self.is_ready: return BufferStatus.FILLING"
StatusReadsIsReady ==
    /\ reader.pc = "is_ready"
    /\ reader' = IF ~(buffer_size(data_buffer) >= data_buffer.min_fill_count)
                 THEN returned(reader, "filling")
                 ELSE [reader EXCEPT !.pc = "last_update"]
    /\ last_call' = "status_is_ready"
    /\ call_arg' = NoArg
    /\ result' = NoResult
    /\ UNCHANGED <<governor_vars, now, data_buffer, buffer_clears,
                   options_engine, time_of_day, regime_engine, or_received>>

\* "if self._last_update_time:" and, when it is not set, "return READY"
StatusTestsLastUpdate ==
    /\ reader.pc = "last_update"
    /\ reader' = IF data_buffer.last_update_time = << >>
                 THEN returned(reader, "ready")
                 ELSE [reader EXCEPT !.pc = "staleness"]
    /\ last_call' = "status_last_update"
    /\ call_arg' = NoArg
    /\ result' = NoResult
    /\ UNCHANGED <<governor_vars, now, data_buffer, buffer_clears,
                   options_engine, time_of_day, regime_engine, or_received>>

\* "staleness = (datetime.now() - self._last_update_time).total_seconds()"
\* and the comparison; the subtraction raises TypeError when the field has
\* been cleared since the test
StatusComputesStaleness ==
    /\ reader.pc = "staleness"
    /\ reader' = IF data_buffer.last_update_time = << >>
                 THEN returned(reader, "TypeError")
                 ELSE IF now - data_buffer.last_update_time[1]
                             > max_data_staleness_seconds * 2
                      THEN returned(reader, "stale")
                      ELSE returned(reader, "ready")
    /\ last_call' = "status_staleness"
    /\ call_arg' = NoArg
    /\ result' = NoResult
    /\ UNCHANGED <<governor_vars, now, data_buffer, buffer_clears,
                   options_engine, time_of_day, regime_engine, or_received>>

NextThreads ==
    \/ WriterAppend
    \/ WriterClear
    \/ ClockTick
    \/ StatusCall
    \/ StatusReadsIsEmpty
    \/ StatusReadsIsReady
    \/ StatusTestsLastUpdate
    \/ StatusComputesStaleness

SpecThreads == InitThreads /\ [][NextThreads]_vars

\* C27: whatever the writer thread does during a call of status, the value
\* the reader gets is the status the buffer had at some instant of the call;
\* in particular it is not READY when the buffer was STALE and then cleared.
C27_ReaderSeesOneInstant ==
    reader.pc = "done" => reader.value \in reader.seen

\* a call during which the writer did nothing returns the status of the
\* buffer
C27_QuietCallIsExact ==
    (reader.pc = "done" /\ Cardinality(reader.seen) = 1)
        => reader.value \in reader.seen

\* EMPTY is decided by one locked read of the size, so it is always a status
\* the buffer had during the call
C27_EmptyIsObserved ==
    (reader.pc = "done" /\ reader.value = "empty") => "empty" \in reader.seen

----------------------------------------------------------------------------
(* The options engine on its own: successive chains analysed by one engine, *)
(* over every OI buildup, PCR reading, wall position and IV path.           *)

MaxAnalyses == 5       \* analyses modelled per engine

OptionsOiChanges ==
    {<<1, 2>>, <<2, 1>>, <<-2, -1>>, <<-1, -2>>, <<0, 0>>}
OptionsWalls == {<<0, 0>>, <<4810, 4785>>, <<4815, 4790>>}

AnalysedChains ==
    {OptionsChain(oi, pcr, walls, iv) :
        oi \in OptionsOiChanges, pcr \in SignalPcrs, walls \in OptionsWalls,
        iv \in SignalIvs}

InitOptions ==
    /\ AppConstructed
    /\ now = 0
    /\ data_buffer = DataBuffer(2, 50)
    /\ buffer_clears = 0
    /\ options_engine = OptionsIntelligenceEngine
    /\ RegimeConstructed

\* options_engine.analyze(chain)
AnalyzeChain ==
    \E chain \in AnalysedChains :
        /\ Len(options_engine.iv_history) < MaxAnalyses
        /\ LET analysed == analyze(options_engine, chain)
           IN  /\ options_engine' = analysed.engine
               /\ result' = [kind |-> "analysis",
                             options_intel |-> analysed.intel]
        /\ last_call' = "analyze"
        /\ call_arg' = chain
        /\ UNCHANGED <<governor_vars, regime_vars, now, data_buffer,
                       buffer_clears>>

\* OptionsIntelligenceEngine.reset_day()
OptionsResetDay ==
    /\ options_engine' = [options_engine EXCEPT !.prev_pcr = << >>]
    /\ last_call' = "options_reset_day"
    /\ call_arg' = NoArg
    /\ result' = NoResult
    /\ UNCHANGED <<governor_vars, regime_vars, now, data_buffer, buffer_clears>>

NextOptions ==
    \/ AnalyzeChain
    \/ OptionsResetDay

SpecOptions == InitOptions /\ [][NextOptions]_vars

C28_Analysed == last_call = "analyze" /\ result.kind = "analysis"

\* the votes of the analysed chain: OI buildup, PCR, OI walls
C28_Votes ==
    direction_signals(analyze_oi_changes(call_arg),
                      interpret_pcr(call_arg.pcr),
                      analyze_oi_walls(call_arg.spot_price, call_arg.call_wall,
                                       call_arg.put_wall))

C28_Multiplier(iv_status) ==
    CASE iv_status = "low" -> 80
      [] iv_status = "normal" -> 100
      [] iv_status = "elevated" -> 90
      [] iv_status = "extreme" -> 70

\* C28: has_conflict is true exactly when the votes hold a LONG and a SHORT;
\* and when it is false all votes agree, the direction is NEUTRAL only with
\* no votes, and the confidence is 0 with no votes and the multiplier of the
\* IV status (0.8, 1.0, 0.9, 0.7) otherwise.
C28_ConflictIffMixedVotes ==
    C28_Analysed
        => LET intel == result.options_intel
               votes == C28_Votes
           IN  /\ intel.has_conflict
                      <=> ("LONG" \in Range(votes) /\ "SHORT" \in Range(votes))
               /\ ~intel.has_conflict
                      => /\ Cardinality(Range(votes)) <= 1
                         /\ intel.direction = "NEUTRAL" <=> votes = << >>
                         /\ votes # << >> => intel.direction = votes[1]
                         /\ intel.iv_status
                                \in {"low", "normal", "elevated", "extreme"}
                         /\ intel.confidence =
                                IF votes = << >> THEN 0
                                ELSE C28_Multiplier(intel.iv_status)

\* three agreeing votes while the IV expands to the top of its history: no
\* conflict, confidence 0.7
C28_Witness ==
    /\ C28_Analysed
    /\ ~result.options_intel.has_conflict
    /\ Len(C28_Votes) = 3
    /\ result.options_intel.iv_trend = "expanding"
    /\ result.options_intel.iv_status = "extreme"
    /\ result.options_intel.confidence = 70

\* OI against PCR: long buildup with a bearish PCR is a conflict, and the
\* votes are mixed
C28_WitnessOiAgainstPcr ==
    /\ C28_Analysed
    /\ result.options_intel.has_conflict
    /\ result.options_intel.oi_buildup_type = "short_covering"
    /\ result.options_intel.pcr_interpretation = "bearish"
    /\ result.options_intel.iv_status = "low"

----------------------------------------------------------------------------
(* The risk-reward ratios of a plan and the R:R gate.                       *)

C29_RejectedOnRiskReward ==
    /\ Built
    /\ C17_HasReason("Risk-Reward below minimum")

\* C29: every plan built with risk_points > 0 has risk_reward_t1 = 1.5 and
\* risk_reward_t2 = 2.5, whatever the price, the ranges and the direction;
\* hence the R:R gate rejects a plan only when risk_points = 0 or the
\* configured minimum exceeds 2.5.
C29_FixedRatiosAndGate ==
    /\ (Built /\ result.risk_points > 0)
           => /\ result.risk_reward_t1 = 15
              /\ result.risk_reward_t2 = 25
    /\ C29_RejectedOnRiskReward
           => \/ BuiltLevels.risk_points = 0
              \/ call_arg.builder.min_risk_reward > 25

\* what holds of the plan: the ratios it carries, rounded to two decimals,
\* are 1.5 and 2.5 whenever it has a risk
C29_FixedRatios ==
    (Built /\ result.risk_points > 0)
        => /\ result.risk_reward_t1 = 15
           /\ result.risk_reward_t2 = 25

\* what holds of the gate: it compares the ratio before rounding, so it
\* rejects only with no risk or with a minimum of 2.5 or more
C29_GateFromBoundary ==
    C29_RejectedOnRiskReward
        => \/ BuiltLevels.risk_points = 0
           \/ call_arg.builder.min_risk_reward >= 25

----------------------------------------------------------------------------
(* Break-even exits.                                                        *)

\* ExecutedTrade.calculate_pnl: the flag it sets for a P&L amount
calculate_pnl(pnl_amount) ==
    [pnl_amount |-> pnl_amount,
     is_winner |-> IF pnl_amount > 0 THEN "True" ELSE "False"]

\* a closed trade whose P&L is exactly 0, or a trade whose flag is unset
C30_BreakEven(trade) ==
    \/ trade = calculate_pnl(0)
    \/ trade.is_winner = "None"

C30_CountedAsLoss ==
    (last_call' = "record_trade_exit" /\ C30_BreakEven(call_arg'))
        => risk_state'.consecutive_losses =
               state_or_init(risk_state, today).consecutive_losses + 1

C30_RunShutsDown ==
    (/\ Initialized
     /\ last_call = "record_trade_exit"
     /\ C30_BreakEven(call_arg)
     /\ risk_state.consecutive_losses >= risk_state.max_consecutive_losses)
        => /\ risk_state.hard_shutdown
           /\ risk_state.status = "shutdown"

\* C30: record_trade_exit treats an exit whose P&L is exactly 0, or whose
\* is_winner flag is unset, as a loss: consecutive_losses goes up by one
\* instead of back to 0, and such exits in a row up to
\* max_consecutive_losses leave hard_shutdown set.
C30_BreakEvenIsLoss == []C30_RunShutsDown /\ [][C30_CountedAsLoss]_vars

\* a day whose every exit came out at exactly 0: after the second one the
\* governor is shut down with nothing lost
C30_Witness ==
    /\ Initialized
    /\ last_call = "record_trade_exit"
    /\ call_arg = calculate_pnl(0)
    /\ risk_state.worst_trade_pnl = 0
    /\ risk_state.best_trade_pnl = 0
    /\ risk_state.total_pnl = 0
    /\ risk_state.consecutive_losses = MaxConsecutiveLosses
    /\ risk_state.hard_shutdown

====
